---- MODULE Spec2Model ----
(***************************************************************************)
(* Model of the trust-tunnel agent's session broker.                       *)
(*                                                                         *)
(* Spec       : Handler.Handle goroutines, the stale-session table, the    *)
(*              sidecar counter and the delayReleaseSession sweeper        *)
(*              (pkg/trust-tunnel-agent/backend).                          *)
(* FairSpec   : Spec with the fairness of the Go scheduler.                *)
(* StreamSpec : one Connection on one session: the command, the backend    *)
(*              plumbing of each variant, the three stream goroutines      *)
(*              and the frames written to the websocket.                   *)
(* RequestSpec: one request through Handle, header by header.              *)
(* BufferSpec : the BlockingBuffer of the client.                          *)
(* UtilSpec   : functions checked on their own, one call per behaviour.    *)
(* ReclaimSpec: one session served by two connections in turn.             *)
(* StepSpec   : Spec with the critical sections of handler.lock step by    *)
(*              step.                                                      *)
(* WriteSpec  : the writes of one Connection to its websocket.             *)
(* DemuxSpec  : dockerSession.streamSplitOutput read by read.              *)
(***************************************************************************)
EXTENDS Integers, Sequences, FiniteSets, TLC

(***************************************************************************)
(* Bounds of the model.                                                    *)
(***************************************************************************)
\* Handle goroutines that run at the same time.
MaxHandlers == 2
\* Writes a command does before it exits (StreamSpec).
MaxWrites == 2
\* Bytes one read buffer holds: bufferSize, 4096 in the source, scaled so
\* that one write of the command needs more than one buffer (StreamSpec).
MaxRead == 2
\* Requests served in one run of the agent.
MaxRequests == 3
\* sidecar_config.limit of the agent under test.
SidecarLimit == 1

(***************************************************************************)
(* Static configuration snapshot (config.toml).                            *)
(***************************************************************************)
ContainerRuntime == "docker"
PhysTunnel == "nsenter"

Handlers == 1..MaxHandlers
Sessions == 1..MaxRequests
NoSess == 0
NoOne == 0
Sweeper == MaxHandlers + 1

Users == {"u1", "u2"}
\* Session-Id header values a client sends ("" = header absent).
ClientSessionIDs == {"", "S"}
\* time.Now().Format("20060102150405") for the requests of one second.
NowID == "T"
TableIDs == {"S", "T"}
TargetTypes == {"physical", "container"}

NoEntry == [userName |-> "", sess |-> NoSess, expired |-> FALSE,
            isSidecarSession |-> FALSE, serial |-> 0]

NoInfo == [SessionID |-> "", UserName |-> "", TargetType |-> "",
           DisableCleanMode |-> FALSE]

ReqInfo(id, user, target, disableClean) ==
  [SessionID |-> id, UserName |-> user, TargetType |-> target,
   DisableCleanMode |-> disableClean]

\* The request envelopes the clients of the model send.
RequestInfos ==
  { ReqInfo("S", "u1", "container", FALSE),
    ReqInfo("S", "u2", "container", FALSE),
    ReqInfo("", "u1", "physical", FALSE) }

\* Outcomes of the read loop of processRemoteInput.
ReadOutcomes == {"normal close", "use of closed network connection",
                 "unexpected EOF", "close session", "read error",
                 "text read error", "stdin error", "copy error"}

VARIABLES
  pc,                \* position of each Handle goroutine
  info,              \* request.Info of the request a goroutine serves
  sessID,            \* local sessID of Handle
  sess,              \* local sess of Handle (NoSess = nil)
  isSidecarSession,  \* local isSidecarSession of Handle
  err,               \* value received from sessConn.errCh ("nil" or an error)
  closeMsg,          \* establish-error close frame written by Handle
  lock,              \* holder of handler.lock
  staleSessions,     \* handler.staleSessions
  currentSidecarNum, \* handler.currentSidecarNum
  nextSess,          \* sessions established so far
  backend,           \* backend variant of each established session
  owner,             \* user name of the request that established a session
  cleanCount,        \* number of Clean calls on each session
  served,            \* requests accepted so far
  \* history variables
  nextSerial,        \* StaleSession values inserted so far
  reclaimLog,        \* serials of the StaleSessions obtained by requests
  reclaimed,         \* sessions that were reclaimed at least once
  swept,             \* serials of the StaleSessions released by the sweeper
  capReached,        \* live sidecar sessions had reached the limit at pre-check
  incs, decs,        \* counter increments / decrements done for a session
  numBefore,         \* counter before the session was established
  numAfter           \* counter after the session was released

VARIABLES
  variant,      \* backend implementation of the session
  tty,          \* Config.Tty
  script,       \* writes the command does, in order
  pos,          \* number of writes the command has done
  exitStatus,   \* exit status of the command (0 until it exits)
  exited,       \* the command has exited
  attach,       \* docker: unread bytes of the attached stream
  attachClosed, \* docker: dockerSession.conn was closed
  demuxPc,      \* docker: position of handleStreamOutput
  stdoutCh,     \* docker: dockerSession.stdoutCh
  stderrCh,     \* docker: dockerSession.stderrCh
  chClosed,     \* docker: both channels are closed
  outPipe,      \* unread bytes of the stdout pipe (or of the pty)
  errPipe,      \* unread bytes of the stderr pipe
  pipeClosed,   \* the agent's end of the pipes was closed
  waitPc,       \* position of the backend's wait goroutine
  stdoutDone,   \* signals buffered in the stdoutDone channel
  stderrDone,   \* signals buffered in the stderrDone channel
  exitCh,       \* exitCh was closed
  exitCode,     \* exitCode field of the session
  outPc,        \* position of processLocalOutput
  errPc,        \* position of processLocalError
  outErr,       \* error processOutOrErr(false) returned
  code,         \* value ExitCode() returned to processLocalOutput
  inPc,         \* position of processRemoteInput
  doneCh,       \* sessConn.doneCh was closed
  errCh,        \* what sessConn.errCh delivers ("open" while it blocks)
  hdlPc,        \* position of Handle after the goroutines started
  connOpen,     \* the websocket connection is open at the agent
  frames,       \* frames the agent wrote to the websocket
  client,       \* what the client did
  cleans,       \* results of the calls of Clean on the session
  owed,         \* stdout bytes the command had written when the client
                \* sent `close session`
  doneFired     \* StdoutDone of this connection returned

VARIABLES
  header,       \* r.Header of the request Handle serves
  authHandler,  \* handler.authHandler ("nil" when no plugin is configured)
  authResult,   \* authResult.Code (0 until VerifyAccessPermission returned)
  requestErr,   \* error GetRequestInfo returned
  failure,      \* error text that ended the request before a session served it
  reqPc,        \* position of Handle on this request
  reached,      \* steps of Handle the request has reached
  closeFrames,  \* close frames handed to conn.WriteMessage
  endErr,       \* error processOutOrErr(false) returned for this request
  outEnded      \* processLocalOutput returned

requestVars == <<header, authHandler, authResult, requestErr, failure, reqPc,
                 reached, closeFrames, endErr, outEnded>>

VARIABLES
  readBuffer,   \* BlockingBuffer.readBuffer (NilBuffer after Close)
  writeBuffer,  \* BlockingBuffer.writeBuffer (NilBuffer after Close)
  signal,       \* values buffered in BlockingBuffer.signal (capacity 1)
  signalClosed, \* BlockingBuffer.signal was closed
  rw,           \* BlockingBuffer.lock: its writer and its number of readers
  rdPc,         \* position of the goroutine that calls Read
  wrPc,         \* position of the goroutine that calls Write and Close
  readLen,      \* len(p) of the Read in progress
  wrote,        \* number of Write calls that returned
  accepted,     \* bytes the Write calls accepted, in order
  returned,     \* bytes the Read calls returned, in order
  lastRead      \* what the last Read returned

bufferVars == <<readBuffer, writeBuffer, signal, signalClosed, rw, rdPc, wrPc,
                readLen, wrote, accepted, returned, lastRead>>

VARIABLES
  call,         \* the function called and its arguments
  ret           \* the values its calls returned, in order

utilVars == <<call, ret>>

VARIABLES
  sessPhase,    \* "live", "broken", "stale" (in handler.staleSessions), "reclaimed"
  outChans,     \* stdoutCh and stderrCh of the session: chunks not yet taken
  producedN,    \* number of chunks the backend has produced
  connEnded,    \* the websocket of the connection is gone
  doneClosed,   \* Connection.doneCh was closed
  taskPc,       \* position of processOutOrErr of each connection and stream
  taskChunk,    \* chunk NextStdout / NextStderr returned to the task (0: none)
  sent,         \* chunks written to the websocket of each connection
  lostChunks,   \* chunks whose write failed
  doneBuf,      \* values buffered in stdoutDone and stderrDone (capacity 1)
  reclaimMark,  \* number of chunks produced before the session was reclaimed
  sessKind,     \* backend of the shared session: "docker" or "nsenter"
  backendEof,   \* the command has exited and its output has reached EOF
  sessWait,     \* nsenter: position of nsenterSession.wait
  localOut,     \* position of processLocalOutput of each connection
  closeFrame    \* outcome of the close frame of each connection

reclaimVars == <<sessPhase, outChans, producedN, connEnded, doneClosed,
                 taskPc, taskChunk, sent, lostChunks, doneBuf, reclaimMark,
                 sessKind, backendEof, sessWait, localOut, closeFrame>>

VARIABLES
  connLock,     \* holder of Connection.lock ("none" when it is free)
  writerPc,     \* position of each goroutine that writes to the websocket
  readersLeft,  \* readers NextStdout / NextStderr will still return
  writeErr,     \* error of the write in progress of each goroutine
  netOpen,      \* the websocket accepts writes
  wire          \* messages completed on the websocket, in order

writeVars == <<connLock, writerPc, readersLeft, writeErr, netOpen, wire>>

VARIABLES
  frameHdr      \* streamSplitOutput: stream and unread size of the frame
                \* whose header was taken

splitVars == <<frameHdr>>

extraVars == <<bufferVars, utilVars, reclaimVars, writeVars, splitVars>>

cmdVars == <<variant, tty, script, pos, exitStatus, exited>>
dockerVars == <<attach, attachClosed, demuxPc, stdoutCh, stderrCh, chClosed>>
pipeVars == <<outPipe, errPipe, pipeClosed>>
waitVars == <<waitPc, stdoutDone, stderrDone, exitCh, exitCode>>
outVars == <<outPc, outErr, code, doneFired>>
connVars == <<inPc, doneCh, errCh, hdlPc, connOpen, client, owed, cleans>>
streamVars == <<cmdVars, dockerVars, pipeVars, waitVars, outVars, errPc,
                connVars, frames>>

brokerVars == <<pc, info, sessID, sess, isSidecarSession, err, closeMsg, lock,
          staleSessions, currentSidecarNum, nextSess, backend, owner,
          cleanCount, served, nextSerial, reclaimLog, reclaimed, swept,
          capReached, incs, decs, numBefore, numAfter>>

vars == <<brokerVars, streamVars, requestVars, extraVars>>

handlerLocals == <<info, sessID, sess, isSidecarSession, err, closeMsg>>
sessionVars == <<nextSess, backend, owner, cleanCount>>
history == <<nextSerial, reclaimLog, reclaimed, swept, capReached, incs,
             decs, numBefore, numAfter>>

(***************************************************************************)
(* Pure helpers.                                                           *)
(***************************************************************************)
\* EstablishSession / establishPhysSession / establishContainerSession:
\* the backend variant a request is served by.
BackendOf(i) ==
  IF i.TargetType = "physical"
    THEN IF PhysTunnel = "nsenter" /\ ~i.DisableCleanMode
           THEN "HostNsEnter" ELSE "HostSSH"
    ELSE IF ContainerRuntime = "docker"
           THEN IF i.DisableCleanMode THEN "DirectExec" ELSE "SidecarAttached"
           ELSE "DirectExec"

\* Handler.checkSidecarNum: <<isContainerSidecarSession, error>>.
checkSidecarNum(i, num) ==
  IF ContainerRuntime = "docker" /\ ~i.DisableCleanMode /\ num >= SidecarLimit
    THEN <<TRUE, "current sidecar num exceed the limit">>
    ELSE <<FALSE, "nil">>

\* strings.Contains.
Contains(s, substr) ==
  \E i \in 1..(Len(s) - Len(substr) + 1) :
    SubSeq(s, i, i + Len(substr) - 1) = substr

\* sessionutil.WrapErrorWithCode: the code put in front of an error text,
\* the first case of the switch whose substring the text contains.
WrapErrorWithCode(msg) ==
  IF Contains(msg, "no space left on device") THEN "MA_513"
  ELSE IF Contains(msg, "visit authorization server failed") THEN "MA_518"
  ELSE IF Contains(msg, "verify client certificate error") THEN "MA_519"
  ELSE IF Contains(msg, "current sidecar num exceed the limit") THEN "MA_521"
  ELSE IF Contains(msg, "can't find container") THEN "MA_522"
  ELSE IF Contains(msg, "container is not running") THEN "MA_523"
  ELSE IF Contains(msg, "docker daemon is unavailable") THEN "MA_524"
  ELSE IF Contains(msg, "is not permitted to login on host") THEN "MA_525"
  ELSE IF Contains(msg, "user does not exist") THEN "MA_526"
  ELSE IF Contains(msg, "nsenter host namespace failed") THEN "MA_527"
  ELSE IF Contains(msg, "SSH public key insert error") THEN "MA_528"
  ELSE IF Contains(msg, "SSH private key read error") THEN "MA_529"
  ELSE IF Contains(msg, "SSH private key parse error") THEN "MA_530"
  ELSE IF Contains(msg, "SSH connect error") THEN "MA_531"
  ELSE "MA_-1"

\* The text WrapErrorWithCode returns: fmt.Sprintf("code=%s,msg=%s", ...).
CodeMsg(msg) == "code=" \o WrapErrorWithCode(msg) \o ",msg=" \o msg

\* sessionutil.WrapContainerError.
maxContainerIDLength == 6

WrapContainerError(errMsg, containerID) ==
  LET id == IF Len(containerID) > maxContainerIDLength
              THEN SubSeq(containerID, 1, maxContainerIDLength)
              ELSE containerID
  IN  IF Contains(errMsg, "No such container") \/ Contains(errMsg, "not found")
        THEN "can't find container:" \o id
      ELSE IF Contains(errMsg, "is not running")
        THEN "container is not running:" \o id
      ELSE IF Contains(errMsg, "no such file or directory")
              \/ Contains(errMsg, "connection refused")
        THEN "docker is unavailable"
      ELSE errMsg

\* Errors EstablishSession returns for a backend variant.
EstablishErrors(b) ==
  CASE b = "SidecarAttached" -> {"can't find container"}
    [] b = "DirectExec" -> {"container is not running"}
    [] b = "HostNsEnter" -> {"user does not exist"}
    [] OTHER -> {"SSH connect error"}

\* Connection.processRemoteInput: what Handle receives from errCh, which the
\* deferred close(errCh) closes after at most one send.
ErrChResult(o) ==
  CASE o = "normal close" -> "nil"
    [] o = "use of closed network connection" -> "nil"
    [] o = "unexpected EOF" -> "nil"
    [] o = "close session" -> "nil"
    [] o = "read error" -> "read from remote error"
    [] o = "text read error" -> "read from remote error"
    [] o = "stdin error" -> "got cmd's stdin error"
    [] OTHER -> "copy data from websocket to cmd's stdin failed"

\* Session.Clean of each backend: the results it can return.
CleanResults(b) ==
  IF b \in {"SidecarAttached", "HostNsEnter"}
    THEN {"nil", "clean error"} ELSE {"nil"}

\* Reuse that leaves the entry in the table.
DeleteEntryNot(table, id) == table

\* delete(handler.staleSessions, sessID).
DeleteEntry(table, id) == [table EXCEPT ![id] = NoEntry]

\* Lock that excludes nobody (the reuse block without handler.lock).
CanLockAlways(holder) == TRUE

\* sync.Mutex.Lock on handler.lock returns only when nobody holds it.
CanLock(holder) == holder = NoOne

\* Reuse condition that forgets the user name.
CanReuseAnyUser(entry, id, userName) == entry # NoEntry /\ id # ""

\* The reuse condition of Handle.
CanReuse(entry, id, userName) ==
  entry # NoEntry /\ id # "" /\ userName = entry.userName

\* Decrement that forgets the sidecar flag.
ShouldDecrementAnySession(cleanErr, flag) == cleanErr = "nil"

\* `err == nil && isSidecarSession` before currentSidecarNum--.
ShouldDecrement(cleanErr, flag) == cleanErr = "nil" /\ flag

\* Inverted test of the error received from errCh.
ShouldReserveInverted(e) == e = "nil"

\* `err != nil` after <-sessConn.errCh: reserve rather than release.
ShouldReserve(e) == e # "nil"

LiveSidecars ==
  Cardinality({s \in 1..nextSess : backend[s] = "SidecarAttached"
                                   /\ cleanCount[s] = 0})

(***************************************************************************)
(* Initial state: NewHandler.                                              *)
(***************************************************************************)
BrokerInit ==
  /\ pc = [h \in Handlers |-> "idle"]
  /\ info = [h \in Handlers |-> NoInfo]
  /\ sessID = [h \in Handlers |-> ""]
  /\ sess = [h \in Handlers |-> NoSess]
  /\ isSidecarSession = [h \in Handlers |-> FALSE]
  /\ err = [h \in Handlers |-> "nil"]
  /\ closeMsg = [h \in Handlers |-> "none"]
  /\ lock = NoOne
  /\ staleSessions = [id \in TableIDs |-> NoEntry]
  /\ currentSidecarNum = 0
  /\ nextSess = 0
  /\ backend = [s \in Sessions |-> "none"]
  /\ owner = [s \in Sessions |-> ""]
  /\ cleanCount = [s \in Sessions |-> 0]
  /\ served = 0
  /\ nextSerial = 0
  /\ reclaimLog = <<>>
  /\ reclaimed = {}
  /\ swept = {}
  /\ capReached = [h \in Handlers |-> FALSE]
  /\ incs = [s \in Sessions |-> 0]
  /\ decs = [s \in Sessions |-> 0]
  /\ numBefore = [s \in Sessions |-> 0]
  /\ numAfter = [s \in Sessions |-> 0]

\* No connection is modelled at the level of its goroutines.
StreamOff ==
  /\ variant = "none" /\ tty = FALSE /\ script = <<>> /\ pos = 0
  /\ exitStatus = 0 /\ exited = FALSE
  /\ attach = <<>> /\ attachClosed = FALSE /\ demuxPc = "off"
  /\ stdoutCh = <<>> /\ stderrCh = <<>> /\ chClosed = FALSE
  /\ outPipe = <<>> /\ errPipe = <<>> /\ pipeClosed = FALSE
  /\ waitPc = "off" /\ stdoutDone = 0 /\ stderrDone = 0
  /\ exitCh = FALSE /\ exitCode = 0
  /\ outPc = "off" /\ errPc = "off" /\ outErr = "nil" /\ code = 0
  /\ inPc = "off" /\ doneCh = FALSE /\ errCh = "open" /\ hdlPc = "off"
  /\ connOpen = FALSE /\ frames = <<>> /\ client = "none" /\ owed = <<>>
  /\ cleans = <<>>
  /\ doneFired = FALSE

\* No request is modelled at the level of its headers.
NoErr == [text |-> "", json |-> "null"]

RequestOff ==
  /\ header = <<>> /\ authHandler = "nil" /\ authResult = 0
  /\ requestErr = "nil" /\ failure = "nil" /\ reqPc = "off"
  /\ reached = {} /\ closeFrames = <<>> /\ endErr = NoErr
  /\ outEnded = FALSE

\* A nil *bytes.Buffer (the bytes of a buffer are positive).
NilBuffer == <<-1>>

\* No BlockingBuffer is modelled.
BufferOff ==
  /\ readBuffer = NilBuffer /\ writeBuffer = NilBuffer /\ signal = 0
  /\ signalClosed = FALSE /\ rw = [writer |-> "none", readers |-> 0]
  /\ rdPc = "off" /\ wrPc = "off" /\ readLen = 0 /\ wrote = 0
  /\ accepted = <<>> /\ returned = <<>> /\ lastRead = "none"

\* No function is called on its own.
UtilOff == call = [fn |-> "none"] /\ ret = <<>>

\* No session is shared by two connections.
ReclaimOff ==
  /\ sessPhase = "off" /\ outChans = <<>> /\ producedN = 0
  /\ connEnded = <<>> /\ doneClosed = <<>> /\ taskPc = <<>>
  /\ taskChunk = <<>> /\ sent = <<>> /\ lostChunks = {} /\ doneBuf = <<>>
  /\ reclaimMark = 0
  /\ sessKind = "none" /\ backendEof = FALSE /\ sessWait = "off"
  /\ localOut = <<>> /\ closeFrame = <<>>

\* No connection is followed write by write.
WriteOff ==
  /\ connLock = "none" /\ writerPc = <<>> /\ readersLeft = <<>>
  /\ writeErr = <<>> /\ netOpen = FALSE /\ wire = <<>>

\* streamSplitOutput is inside no frame.
NoHdr == [stream |-> -1, left |-> 0]
SplitOff == frameHdr = NoHdr

ExtraOff == BufferOff /\ UtilOff /\ ReclaimOff /\ WriteOff /\ SplitOff

nonBufferVars == <<brokerVars, streamVars, requestVars, utilVars, reclaimVars,
                   writeVars, splitVars>>
nonUtilVars == <<brokerVars, streamVars, requestVars, bufferVars, reclaimVars,
                 writeVars, splitVars>>
nonReclaimVars == <<brokerVars, streamVars, requestVars, bufferVars, utilVars,
                    writeVars, splitVars>>
nonWriteVars == <<brokerVars, streamVars, requestVars, bufferVars, utilVars,
                  reclaimVars, splitVars>>

Init == BrokerInit /\ StreamOff /\ RequestOff /\ ExtraOff

(***************************************************************************)
(* Handler.Handle.                                                         *)
(***************************************************************************)
\* GetRequestInfo, the auth check and the websocket upgrade succeed; the
\* request is served by the lowest idle goroutine.
Accept(h, i) ==
  /\ pc[h] = "idle"
  /\ \A g \in Handlers : g < h => pc[g] # "idle"
  /\ served < MaxRequests
  /\ served' = served + 1
  /\ info' = [info EXCEPT ![h] = i]
  /\ sessID' = [sessID EXCEPT ![h] = i.SessionID]
  /\ pc' = [pc EXCEPT ![h] = "lock1"]
  /\ UNCHANGED <<sess, isSidecarSession, err, closeMsg, lock, staleSessions,
                 currentSidecarNum, sessionVars, history>>
  /\ UNCHANGED <<streamVars, requestVars, extraVars>>

\* handler.lock.Lock(); `if staleSess, ok := handler.staleSessions[sessID];
\* ok && sessID != "" && requestInfo.UserName == staleSess.userName` and
\* `sess = staleSess.sess`.  When nothing is reused: handler.lock.Unlock(),
\* and an empty session id becomes the current time.
Lookup(h) ==
  /\ pc[h] = "lock1"
  /\ CanLock(lock)
  /\ LET id == sessID[h]
         entry == IF id \in TableIDs THEN staleSessions[id] ELSE NoEntry
     IN IF CanReuse(entry, id, info[h].UserName)
          THEN /\ lock' = h
               /\ sess' = [sess EXCEPT ![h] = entry.sess]
               /\ reclaimLog' = Append(reclaimLog, entry.serial)
               /\ reclaimed' = reclaimed \cup {entry.sess}
               /\ pc' = [pc EXCEPT ![h] = "delete"]
               /\ UNCHANGED sessID
          ELSE /\ lock' = NoOne
               /\ sessID' = [sessID EXCEPT ![h] = IF @ = "" THEN NowID ELSE @]
               /\ pc' = [pc EXCEPT ![h] =
                           IF info[h].TargetType = "container" THEN "precheck"
                           ELSE "establish"]
               /\ UNCHANGED <<sess, reclaimLog, reclaimed>>
  /\ UNCHANGED <<info, isSidecarSession, err, closeMsg,
                 staleSessions, currentSidecarNum, sessionVars,
                 served, nextSerial, swept, capReached, incs, decs, numBefore,
                 numAfter>>
  /\ UNCHANGED <<streamVars, requestVars, extraVars>>

\* delete(handler.staleSessions, sessID); handler.lock.Unlock(); the
\* reused session goes straight to the stream goroutines.
DeleteReused(h) ==
  /\ pc[h] = "delete"
  /\ staleSessions' = DeleteEntry(staleSessions, sessID[h])
  /\ lock' = NoOne
  /\ pc' = [pc EXCEPT ![h] = "wire"]
  /\ UNCHANGED <<handlerLocals, currentSidecarNum, sessionVars,
                 served, history>>
  /\ UNCHANGED <<streamVars, requestVars, extraVars>>

\* containerPreCheck: the runtime client exists; checkSidecarNum decides.
\* On an error Handle writes the establish-error close frame and returns.
PreCheck(h) ==
  /\ pc[h] = "precheck"
  /\ LET res == checkSidecarNum(info[h], currentSidecarNum)
     IN /\ capReached' = [capReached EXCEPT ![h] =
                            BackendOf(info[h]) = "SidecarAttached"
                            /\ LiveSidecars >= SidecarLimit]
        /\ IF res[2] # "nil"
             THEN /\ closeMsg' = [closeMsg EXCEPT ![h] = WrapErrorWithCode(res[2])]
                  /\ pc' = [pc EXCEPT ![h] = "return"]
                  /\ UNCHANGED isSidecarSession
             ELSE /\ isSidecarSession' = [isSidecarSession EXCEPT ![h] = res[1]]
                  /\ pc' = [pc EXCEPT ![h] = "establish"]
                  /\ UNCHANGED closeMsg
  /\ UNCHANGED <<info, sessID, sess, err, lock, staleSessions,
                 currentSidecarNum, sessionVars, served, nextSerial,
                 reclaimLog, reclaimed, swept, incs, decs, numBefore, numAfter>>
  /\ UNCHANGED <<streamVars, requestVars, extraVars>>

\* agentSession.EstablishSession fails: establish-error close frame.
EstablishFail(h) ==
  /\ pc[h] = "establish"
  /\ \E e \in EstablishErrors(BackendOf(info[h])) :
       closeMsg' = [closeMsg EXCEPT ![h] = WrapErrorWithCode(e)]
  /\ pc' = [pc EXCEPT ![h] = "return"]
  /\ UNCHANGED <<info, sessID, sess, isSidecarSession, err, lock,
                 staleSessions, currentSidecarNum, sessionVars,
                 served, history>>
  /\ UNCHANGED <<streamVars, requestVars, extraVars>>

\* agentSession.EstablishSession succeeds; `if isSidecarSession
\* { handler.currentSidecarNum++ }`.
Establish(h) ==
  /\ pc[h] = "establish"
  /\ LET s == nextSess + 1
     IN /\ nextSess' = s
        /\ backend' = [backend EXCEPT ![s] = BackendOf(info[h])]
        /\ owner' = [owner EXCEPT ![s] = info[h].UserName]
        /\ sess' = [sess EXCEPT ![h] = s]
        /\ numBefore' = [numBefore EXCEPT ![s] = currentSidecarNum]
        /\ numAfter' = [numAfter EXCEPT ![s] = currentSidecarNum]
        /\ IF isSidecarSession[h]
             THEN /\ currentSidecarNum' = currentSidecarNum + 1
                  /\ incs' = [incs EXCEPT ![s] = @ + 1]
             ELSE UNCHANGED <<currentSidecarNum, incs>>
  /\ pc' = [pc EXCEPT ![h] = "wire"]
  /\ UNCHANGED <<info, sessID, isSidecarSession, err, closeMsg, lock,
                 staleSessions, cleanCount, served, nextSerial,
                 reclaimLog, reclaimed, swept, capReached, decs>>
  /\ UNCHANGED <<streamVars, requestVars, extraVars>>

\* The three stream goroutines run; processRemoteInput ends with outcome o
\* and `err = <-sessConn.errCh` returns.
StreamsEnd(h, o) ==
  /\ pc[h] = "wire"
  /\ err' = [err EXCEPT ![h] = ErrChResult(o)]
  /\ pc' = [pc EXCEPT ![h] = "lock2"]
  /\ UNCHANGED <<info, sessID, sess, isSidecarSession, closeMsg, lock,
                 staleSessions, currentSidecarNum, sessionVars,
                 served, history>>
  /\ UNCHANGED <<streamVars, requestVars, extraVars>>

\* Handle returns: its locals are gone and the deferred conn.Close() ran.
Returned(h) ==
  /\ pc' = [pc EXCEPT ![h] = "idle"]
  /\ info' = [info EXCEPT ![h] = NoInfo]
  /\ sessID' = [sessID EXCEPT ![h] = ""]
  /\ sess' = [sess EXCEPT ![h] = NoSess]
  /\ isSidecarSession' = [isSidecarSession EXCEPT ![h] = FALSE]
  /\ err' = [err EXCEPT ![h] = "nil"]
  /\ closeMsg' = [closeMsg EXCEPT ![h] = "none"]
  /\ capReached' = [capReached EXCEPT ![h] = FALSE]

\* handler.lock.Lock(); `handler.staleSessions[sessID] = &StaleSession{...}`;
\* handler.lock.Unlock().
Reserve(h) ==
  /\ pc[h] = "lock2"
  /\ CanLock(lock)
  /\ ShouldReserve(err[h])
  /\ nextSerial' = nextSerial + 1
  /\ staleSessions' = [staleSessions EXCEPT ![sessID[h]] =
       [userName |-> info[h].UserName, sess |-> sess[h], expired |-> FALSE,
        isSidecarSession |-> isSidecarSession[h], serial |-> nextSerial + 1]]
  /\ Returned(h)
  /\ UNCHANGED <<lock, currentSidecarNum, sessionVars, served, reclaimLog,
                 reclaimed, swept, incs, decs, numBefore, numAfter>>
  /\ UNCHANGED <<streamVars, requestVars, extraVars>>

\* handler.lock.Lock(); `err = handler.releaseSession(sessID, sess)` (Clean,
\* then delete by id) and the conditional decrement; handler.lock.Unlock().
Release(h) ==
  /\ pc[h] = "lock2"
  /\ CanLock(lock)
  /\ ~ShouldReserve(err[h])
  /\ \E cleanErr \in CleanResults(backend[sess[h]]) :
       LET dec == ShouldDecrement(cleanErr, isSidecarSession[h])
           num == IF dec THEN currentSidecarNum - 1 ELSE currentSidecarNum
       IN /\ currentSidecarNum' = num
          /\ decs' = [decs EXCEPT ![sess[h]] = IF dec THEN @ + 1 ELSE @]
          /\ numAfter' = [numAfter EXCEPT ![sess[h]] = num]
  /\ cleanCount' = [cleanCount EXCEPT ![sess[h]] = @ + 1]
  /\ staleSessions' = [staleSessions EXCEPT ![sessID[h]] = NoEntry]
  /\ Returned(h)
  /\ UNCHANGED <<lock, nextSess, backend, owner, served, nextSerial,
                 reclaimLog, reclaimed, swept, incs, numBefore>>
  /\ UNCHANGED <<streamVars, requestVars, extraVars>>

\* Handle returns after an establish-error close frame.
ReturnAfterError(h) ==
  /\ pc[h] = "return"
  /\ Returned(h)
  /\ UNCHANGED <<lock, staleSessions, currentSidecarNum, sessionVars, served,
                 nextSerial, reclaimLog, reclaimed, swept, incs, decs, numBefore,
                 numAfter>>
  /\ UNCHANGED <<streamVars, requestVars, extraVars>>

(***************************************************************************)
(* Handler.delayReleaseSession and the death clocks.                       *)
(***************************************************************************)
\* time.After(DelayReleaseSessionTimeout) of an entry fires.
DeathClockFires(id) ==
  /\ staleSessions[id] # NoEntry
  /\ ~staleSessions[id].expired
  /\ staleSessions' = [staleSessions EXCEPT ![id].expired = TRUE]
  /\ UNCHANGED <<pc, handlerLocals, lock, currentSidecarNum,
                 sessionVars, served, history>>
  /\ UNCHANGED <<streamVars, requestVars, extraVars>>

\* One pass of the sweeper: the ticker fires, it takes handler.lock and
\* ranges over the table: every entry whose death clock fired is released
\* (Clean, delete) and the counter decremented for its flag; then it unlocks.
Sweep ==
  /\ CanLock(lock)
  /\ LET due == {id \in TableIDs : staleSessions[id] # NoEntry
                                   /\ staleSessions[id].expired}
         dueSess == {staleSessions[id].sess : id \in due}
     IN /\ due # {}
        /\ \E failed \in SUBSET {id \in due :
                "clean error" \in CleanResults(backend[staleSessions[id].sess])} :
          LET decIds == {id \in due :
                ShouldDecrement(IF id \in failed THEN "clean error" ELSE "nil",
                                staleSessions[id].isSidecarSession)}
              num == currentSidecarNum - Cardinality(decIds)
          IN /\ currentSidecarNum' = num
             /\ decs' = [s \in Sessions |->
                          IF \E id \in decIds : staleSessions[id].sess = s
                            THEN decs[s] + 1 ELSE decs[s]]
             /\ numAfter' = [s \in Sessions |->
                              IF s \in dueSess THEN num ELSE numAfter[s]]
             /\ cleanCount' = [s \in Sessions |->
                                IF s \in dueSess THEN cleanCount[s] + 1
                                ELSE cleanCount[s]]
             /\ staleSessions' = [id \in TableIDs |->
                                   IF id \in due THEN NoEntry
                                   ELSE staleSessions[id]]
             /\ swept' = swept \cup {staleSessions[id].serial : id \in due}
  /\ UNCHANGED <<pc, handlerLocals, lock, nextSess, backend, owner, served,
                 nextSerial, reclaimLog, reclaimed, capReached, incs,
                 numBefore>>
  /\ UNCHANGED <<streamVars, requestVars, extraVars>>

Next ==
  \/ \E h \in Handlers, i \in RequestInfos : Accept(h, i)
  \/ \E h \in Handlers : Lookup(h)
  \/ \E h \in Handlers : DeleteReused(h)
  \/ \E h \in Handlers : PreCheck(h)
  \/ \E h \in Handlers : EstablishFail(h)
  \/ \E h \in Handlers : Establish(h)
  \/ \E h \in Handlers, o \in ReadOutcomes : StreamsEnd(h, o)
  \/ \E h \in Handlers : Reserve(h)
  \/ \E h \in Handlers : Release(h)
  \/ \E h \in Handlers : ReturnAfterError(h)
  \/ \E id \in TableIDs : DeathClockFires(id)
  \/ Sweep

Spec == Init /\ [][Next]_vars

\* Steps of one Handle goroutine that need no client action.
HandleStep(h) ==
  \/ Lookup(h) \/ DeleteReused(h) \/ PreCheck(h) \/ Establish(h)
  \/ EstablishFail(h) \/ Reserve(h) \/ Release(h) \/ ReturnAfterError(h)

\* Goroutines are scheduled fairly, sync.Mutex does not starve a waiter,
\* timers fire and the sweeper's ticker keeps ticking.  Nothing forces a
\* client to send a request or to end its connection.
FairSpec ==
  /\ Spec
  /\ \A h \in Handlers : SF_vars(HandleStep(h))
  /\ SF_vars(Sweep)
  /\ WF_vars(\E id \in TableIDs : DeathClockFires(id))

TypeOK ==
  /\ currentSidecarNum \in Int
  /\ lock \in 0..Sweeper
  /\ nextSess \in 0..MaxRequests

(***************************************************************************)
(* StreamSpec: the command and the plumbing of the backend variants.       *)
(***************************************************************************)
bufferSize == MaxRead
stdWriterPrefixLen == 8
stdWriterFdIndex == 0
stdWriterSizeIndex == 4
\* Capacity of dockerSession.stdoutCh and stderrCh.
chanCap == 64

Variants == {"SidecarAttached", "DirectExec", "DirectExecContainerd",
             "HostNsEnter", "HostSSH"}
IsDocker(v) == v \in {"SidecarAttached", "DirectExec"}

\* Config.Tty changes the plumbing of the docker and nsenter sessions only.
TtyChoices(v) ==
  IF IsDocker(v) \/ v = "HostNsEnter" THEN BOOLEAN ELSE {FALSE}

\* One write(2) of the command: "hi\n" on stdout or "e" on stderr.
Writes == {[fd |-> 1, data |-> <<104, 105, 10>>], [fd |-> 2, data |-> <<101>>]}
Scripts == UNION {[1..n -> Writes] : n \in 0..MaxWrites}
ExitStatuses == {0, 3}

RECURSIVE StdoutOf(_)
\* The bytes a script writes to its stdout, in order.
StdoutOf(sc) ==
  IF sc = <<>> THEN <<>>
  ELSE (IF Head(sc).fd = 1 THEN Head(sc).data ELSE <<>>) \o StdoutOf(Tail(sc))

Take(b, n) == IF Len(b) <= n THEN b ELSE SubSeq(b, 1, n)
Drop(b, n) == IF Len(b) <= n THEN <<>> ELSE SubSeq(b, n + 1, Len(b))

\* binary.BigEndian: a uint32 as four bytes, and back.
PutUint32(n) ==
  <<(n \div 16777216) % 256, (n \div 65536) % 256, (n \div 256) % 256, n % 256>>
Uint32(b) == b[1] * 16777216 + b[2] * 65536 + b[3] * 256 + b[4]

\* A frame of the multiplexed stream the Docker daemon sends for a session
\* without tty: 8-byte header, then the payload.
StdWriterFrame(fd, data) == <<fd, 0, 0, 0>> \o PutUint32(Len(data)) \o data

RECURSIVE Chunks(_, _)
\* streamSplitOutput's inner loop: a payload cut in readers of at most n bytes.
Chunks(b, n) ==
  IF b = <<>> THEN <<>> ELSE <<Take(b, n)>> \o Chunks(Drop(b, n), n)

\* handleStreamOutput(!c.DisableCleanMode): demultiplex by header or not.
SplitsOutput(v, t) == ~t /\ v = "SidecarAttached"

\* setupConsole: stdout and stderr of the nsenter session are the pty master.
UsesPty(v, t) == v = "HostNsEnter" /\ t

\* The done channels are made with capacity 1 (docker, ssh) or 0.
DoneCap(v) == IF IsDocker(v) \/ v = "HostSSH" THEN 1 ELSE 0

\* The read end of a pipe sees EOF when the command, the last writer, exits.
\* The containerd pipes and the pty stay open until the agent closes them.
WriterGone == exited /\ (variant = "HostSSH" \/ (variant = "HostNsEnter" /\ ~tty))

\* First position of the session's wait goroutine.
WaitStart(v, t) ==
  CASE v = "HostNsEnter" -> IF t THEN "sigchld" ELSE "recvOut"
    [] v = "HostSSH" -> "recvErr"
    [] v = "DirectExecContainerd" -> "exit"
    [] OTHER -> "off"

NoChunk == [kind |-> "block", data |-> <<>>]
\* A receive that takes the newest reader of the channel, not the oldest.
NextOutNewest(processErr) ==
  IF IsDocker(variant)
    THEN LET ch == IF processErr THEN stderrCh ELSE stdoutCh IN
         IF ch # <<>> THEN [kind |-> "chunk", data |-> ch[Len(ch)]]
         ELSE IF chClosed THEN [kind |-> "eof", data |-> <<>>] ELSE NoChunk
    ELSE LET p == IF processErr /\ ~UsesPty(variant, tty)
                    THEN errPipe ELSE outPipe IN
         IF pipeClosed THEN [kind |-> "eof", data |-> <<>>]
         ELSE IF p # <<>>
           THEN [kind |-> "chunk",
                 data |-> SubSeq(p, Len(Drop(p, bufferSize)) + 1, Len(p))]
         ELSE IF WriterGone THEN [kind |-> "eof", data |-> <<>>] ELSE NoChunk

\* Session.NextStdout / NextStderr: a reader, io.EOF, or the call blocks.
NextOut(processErr) ==
  IF IsDocker(variant)
    THEN LET ch == IF processErr THEN stderrCh ELSE stdoutCh IN
         IF ch # <<>> THEN [kind |-> "chunk", data |-> Head(ch)]
         ELSE IF chClosed THEN [kind |-> "eof", data |-> <<>>] ELSE NoChunk
    ELSE LET p == IF processErr /\ ~UsesPty(variant, tty)
                    THEN errPipe ELSE outPipe IN
         IF pipeClosed THEN [kind |-> "eof", data |-> <<>>]
         ELSE IF p # <<>> THEN [kind |-> "chunk", data |-> Take(p, bufferSize)]
         ELSE IF WriterGone THEN [kind |-> "eof", data |-> <<>>] ELSE NoChunk

\* State after Handle started the three goroutines of a fresh session.
StreamStart ==
  /\ variant \in Variants /\ tty \in TtyChoices(variant)
  /\ script \in Scripts /\ pos = 0
  /\ exitStatus = 0 /\ exited = FALSE
  /\ attach = <<>> /\ attachClosed = FALSE
  /\ demuxPc = IF IsDocker(variant) THEN "read" ELSE "off"
  /\ stdoutCh = <<>> /\ stderrCh = <<>> /\ chClosed = FALSE
  /\ outPipe = <<>> /\ errPipe = <<>> /\ pipeClosed = FALSE
  /\ waitPc = WaitStart(variant, tty) /\ stdoutDone = 0 /\ stderrDone = 0
  /\ exitCh = FALSE /\ exitCode = 0
  /\ outPc = "check" /\ errPc = "check" /\ outErr = "nil" /\ code = 0
  /\ inPc = "read" /\ doneCh = FALSE /\ errCh = "open" /\ hdlPc = "errCh"
  /\ connOpen = TRUE /\ frames = <<>> /\ client = "connected"
  /\ owed = <<>> /\ cleans = <<>>
  /\ doneFired = FALSE

StreamInit == BrokerInit /\ StreamStart /\ RequestOff /\ ExtraOff

\* The command writes to its stdout or stderr.
CmdWrite ==
  /\ ~exited /\ pos < Len(script)
  /\ pos' = pos + 1
  /\ LET w == script[pos + 1] IN
       IF IsDocker(variant)
         THEN /\ attach' = IF attachClosed THEN attach
                           ELSE IF tty THEN attach \o w.data
                           ELSE attach \o StdWriterFrame(w.fd, w.data)
              /\ UNCHANGED pipeVars
         ELSE /\ outPipe' = IF ~pipeClosed /\ (w.fd = 1 \/ UsesPty(variant, tty))
                              THEN outPipe \o w.data ELSE outPipe
              /\ errPipe' = IF ~pipeClosed /\ w.fd = 2 /\ ~UsesPty(variant, tty)
                              THEN errPipe \o w.data ELSE errPipe
              /\ UNCHANGED <<pipeClosed, attach>>
  /\ UNCHANGED <<variant, tty, script, exitStatus, exited, attachClosed,
                 demuxPc, stdoutCh, stderrCh, chClosed, waitVars, outVars,
                 errPc, connVars, frames, brokerVars, requestVars, extraVars>>

\* The command exits after its last write, with status st.
CmdExit(st) ==
  /\ ~exited /\ pos = Len(script)
  /\ exited' = TRUE
  /\ exitStatus' = st
  /\ UNCHANGED <<variant, tty, script, pos, dockerVars, pipeVars,
                 waitVars, outVars, errPc, connVars, frames,
                 brokerVars, requestVars, extraVars>>

(***************************************************************************)
(* dockerSession.handleStreamOutput.                                       *)
(***************************************************************************)
\* streamUnifiedOutput: one Read of the attached stream; what it returns
\* goes to stdoutCh as it is.  A read error closes both channels.
DemuxUnified ==
  /\ demuxPc = "read" /\ ~SplitsOutput(variant, tty)
  /\ IF attach # <<>> /\ ~attachClosed
       THEN /\ Len(stdoutCh) < chanCap
            /\ stdoutCh' = Append(stdoutCh, Take(attach, bufferSize))
            /\ attach' = Drop(attach, bufferSize)
            /\ UNCHANGED <<demuxPc, chClosed>>
       ELSE /\ attachClosed \/ exited
            /\ chClosed' = TRUE
            /\ demuxPc' = "done"
            /\ UNCHANGED <<attach, stdoutCh>>
  /\ UNCHANGED <<cmdVars, attachClosed, stderrCh, pipeVars, waitVars, outVars,
                 errPc, connVars, frames, brokerVars, requestVars, extraVars>>

\* streamSplitOutput: one frame of the multiplexed stream.  The payload goes
\* to the channel its header names; the function returns, without closing
\* the channels, on any other stream type.  A failing Peek closes both.
DemuxSplit ==
  /\ demuxPc = "read" /\ SplitsOutput(variant, tty)
  /\ IF Len(attach) >= stdWriterPrefixLen /\ ~attachClosed
       THEN LET stream == attach[stdWriterFdIndex + 1]
                frameSize == Uint32(SubSeq(attach, stdWriterSizeIndex + 1,
                                           stdWriterSizeIndex + 4))
                payload == SubSeq(attach, stdWriterPrefixLen + 1,
                                  stdWriterPrefixLen + frameSize)
                readers == Chunks(payload, bufferSize)
            IN  /\ Len(attach) >= stdWriterPrefixLen + frameSize
                /\ attach' = Drop(attach, stdWriterPrefixLen + frameSize)
                /\ stdoutCh' = IF stream = 1 THEN stdoutCh \o readers
                               ELSE stdoutCh
                /\ stderrCh' = IF stream = 2 THEN stderrCh \o readers
                               ELSE stderrCh
                /\ Len(stdoutCh') <= chanCap /\ Len(stderrCh') <= chanCap
                /\ demuxPc' = IF stream \in {1, 2} \/ frameSize = 0
                                THEN "read" ELSE "done"
                /\ UNCHANGED chClosed
       ELSE /\ attachClosed \/ exited
            /\ chClosed' = TRUE
            /\ demuxPc' = "done"
            /\ UNCHANGED <<attach, stdoutCh, stderrCh>>
  /\ UNCHANGED <<cmdVars, attachClosed, pipeVars, waitVars, outVars, errPc,
                 connVars, frames, brokerVars, requestVars, extraVars>>

(***************************************************************************)
(* Connection.processLocalOutput and processLocalError.                    *)
(***************************************************************************)
BinaryFrame(d) == [type |-> "binary", data |-> d, code |-> 0, err |-> "nil"]
TextFrame(d) == [type |-> "text", data |-> d, code |-> 0, err |-> "nil"]
CloseFrame(c, e) == [type |-> "close", data |-> <<>>, code |-> c, err |-> e]

\* Position of processLocalOutput when the loop of processOutOrErr returns
\* without the deferred StdoutDone.
OutLoopExitNoDefer == "exitcode"

\* Position of processLocalOutput when the loop of processOutOrErr returns:
\* the deferred StdoutDone runs before ExitCode is called.
OutLoopExit == "done"

\* The session's reader state after one reader was taken from it.
Consume(processErr) ==
  IF IsDocker(variant)
    THEN /\ stdoutCh' = IF processErr THEN stdoutCh ELSE Tail(stdoutCh)
         /\ stderrCh' = IF processErr THEN Tail(stderrCh) ELSE stderrCh
         /\ UNCHANGED <<outPipe, errPipe>>
    ELSE /\ outPipe' = IF processErr /\ ~UsesPty(variant, tty)
                         THEN outPipe ELSE Drop(outPipe, bufferSize)
         /\ errPipe' = IF processErr /\ ~UsesPty(variant, tty)
                         THEN Drop(errPipe, bufferSize) ELSE errPipe
         /\ UNCHANGED <<stdoutCh, stderrCh>>

\* processOutOrErr(false): the non-blocking receive from doneCh.
OutCheck ==
  /\ outPc = "check"
  /\ outPc' = IF doneCh THEN OutLoopExit ELSE "next"
  /\ UNCHANGED <<cmdVars, dockerVars, pipeVars, waitVars, outErr, code,
                 doneFired, errPc, connVars, frames, brokerVars, requestVars,
                 extraVars>>

\* processOutOrErr(false): NextStdout, then write as one binary message.
OutNext ==
  /\ outPc = "next"
  /\ LET r == NextOut(FALSE) IN
       /\ r.kind # "block"
       /\ IF r.kind = "eof"
            THEN /\ outPc' = OutLoopExit
                 /\ UNCHANGED <<stdoutCh, stderrCh, outPipe, errPipe, frames,
                                outErr>>
            ELSE /\ Consume(FALSE)
                 /\ IF connOpen
                      THEN /\ frames' = Append(frames, BinaryFrame(r.data))
                           /\ outPc' = "check"
                           /\ UNCHANGED outErr
                      ELSE /\ outErr' = "write error"
                           /\ outPc' = OutLoopExit
                           /\ UNCHANGED frames
  /\ UNCHANGED <<cmdVars, attach, attachClosed, demuxPc, chClosed, pipeClosed,
                 waitVars, code, doneFired, errPc, connVars,
                 brokerVars, requestVars, extraVars>>

\* Session.StdoutDone: a send on stdoutDone.  Without a buffer the send is a
\* rendezvous with the wait goroutine.
OutDone ==
  /\ outPc = "done"
  /\ IF DoneCap(variant) > 0
       THEN /\ stdoutDone < DoneCap(variant)
            /\ stdoutDone' = stdoutDone + 1
            /\ UNCHANGED waitPc
       ELSE /\ waitPc = "recvOut"
            /\ waitPc' = "recvErr"
            /\ UNCHANGED stdoutDone
  /\ doneFired' = TRUE
  /\ outPc' = "exitcode"
  /\ UNCHANGED <<cmdVars, dockerVars, pipeVars, stderrDone, exitCh, exitCode,
                 outErr, code, errPc, connVars, frames,
                 brokerVars, requestVars, extraVars>>

\* Session.ExitCode.  docker: receive both done signals, then ask the
\* daemon.  nsenter, ssh: exitCh or two seconds.  containerd: the field.
OutExitCode ==
  /\ outPc = "exitcode"
  /\ CASE variant = "SidecarAttached" ->
            /\ stdoutDone > 0 /\ stderrDone > 0 /\ exited
            /\ stdoutDone' = stdoutDone - 1 /\ stderrDone' = stderrDone - 1
            /\ code' = exitStatus
       [] variant = "DirectExec" ->
            /\ stdoutDone > 0 /\ stderrDone > 0
            /\ stdoutDone' = stdoutDone - 1 /\ stderrDone' = stderrDone - 1
            /\ code' = IF exited THEN exitStatus ELSE 0
       [] variant = "DirectExecContainerd" ->
            /\ code' = exitCode
            /\ UNCHANGED <<stdoutDone, stderrDone>>
       [] OTHER ->
            /\ code' = IF exitCh THEN exitCode ELSE 0
            /\ UNCHANGED <<stdoutDone, stderrDone>>
  /\ outPc' = "close"
  /\ UNCHANGED <<cmdVars, dockerVars, pipeVars, waitPc, exitCh, exitCode,
                 outErr, doneFired, errPc, connVars, frames,
                 brokerVars, requestVars, extraVars>>

\* processLocalOutput: the close message with NormalCloseMessage{Code, Err}.
OutClose ==
  /\ outPc = "close"
  /\ frames' = IF connOpen THEN Append(frames, CloseFrame(code, outErr))
               ELSE frames
  /\ outPc' = "end"
  /\ UNCHANGED <<cmdVars, dockerVars, pipeVars, waitVars, outErr, code,
                 doneFired, errPc, connVars, brokerVars, requestVars,
                 extraVars>>

\* processOutOrErr(true): the non-blocking receive from doneCh.
ErrCheck ==
  /\ errPc = "check"
  /\ errPc' = IF doneCh THEN "done" ELSE "next"
  /\ UNCHANGED <<cmdVars, dockerVars, pipeVars, waitVars, outVars, connVars,
                 frames, brokerVars, requestVars, extraVars>>

\* processOutOrErr(true): NextStderr, then write as one text message.
ErrNext ==
  /\ errPc = "next"
  /\ LET r == NextOut(TRUE) IN
       /\ r.kind # "block"
       /\ IF r.kind = "eof"
            THEN /\ errPc' = "done"
                 /\ UNCHANGED <<stdoutCh, stderrCh, outPipe, errPipe, frames>>
            ELSE /\ Consume(TRUE)
                 /\ IF connOpen
                      THEN /\ frames' = Append(frames, TextFrame(r.data))
                           /\ errPc' = "check"
                      ELSE /\ errPc' = "done"
                           /\ UNCHANGED frames
  /\ UNCHANGED <<cmdVars, attach, attachClosed, demuxPc, chClosed, pipeClosed,
                 waitVars, outVars, connVars, brokerVars, requestVars,
                 extraVars>>

\* Session.StderrDone: a send on stderrDone.
ErrDone ==
  /\ errPc = "done"
  /\ IF DoneCap(variant) > 0
       THEN /\ stderrDone < DoneCap(variant)
            /\ stderrDone' = stderrDone + 1
            /\ UNCHANGED waitPc
       ELSE /\ waitPc = "recvErr"
            /\ waitPc' = "wait"
            /\ UNCHANGED stderrDone
  /\ errPc' = "end"
  /\ UNCHANGED <<cmdVars, dockerVars, pipeVars, stdoutDone, exitCh, exitCode,
                 outVars, connVars, frames, brokerVars, requestVars,
                 extraVars>>

(***************************************************************************)
(* The wait goroutine of the nsenter, ssh and containerd sessions.         *)
(***************************************************************************)
\* nsenterSession.wait with a tty: SIGCHLD, then master and slave are closed.
WaitSigchld ==
  /\ waitPc = "sigchld" /\ exited
  /\ pipeClosed' = TRUE
  /\ waitPc' = "recvOut"
  /\ UNCHANGED <<cmdVars, dockerVars, outPipe, errPipe, stdoutDone, stderrDone,
                 exitCh, exitCode, outVars, errPc, connVars, frames,
                 brokerVars, requestVars, extraVars>>

\* containerdSession.wait: the exit status arrives, and after 100 ms the
\* write ends of the pipes are closed.
WaitContainerdExit ==
  /\ waitPc = "exit" /\ exited
  /\ pipeClosed' = TRUE
  /\ waitPc' = "recvOut"
  /\ UNCHANGED <<cmdVars, dockerVars, outPipe, errPipe, stdoutDone, stderrDone,
                 exitCh, exitCode, outVars, errPc, connVars, frames,
                 brokerVars, requestVars, extraVars>>

\* sshSession.wait: receive stderrDone, then stdoutDone.
WaitRecv ==
  /\ variant = "HostSSH"
  /\ \/ /\ waitPc = "recvErr" /\ stderrDone > 0
        /\ stderrDone' = stderrDone - 1
        /\ waitPc' = "recvOut"
        /\ UNCHANGED stdoutDone
     \/ /\ waitPc = "recvOut" /\ stdoutDone > 0
        /\ stdoutDone' = stdoutDone - 1
        /\ waitPc' = "wait"
        /\ UNCHANGED stderrDone
  /\ UNCHANGED <<cmdVars, dockerVars, pipeVars, exitCh, exitCode, outVars,
                 errPc, connVars, frames, brokerVars, requestVars, extraVars>>

\* The end of wait: the exit status is stored (cmd.Wait, session.Wait,
\* status.Result) and exitCh is closed.  session.Wait on a closed ssh
\* session returns an error that is no ExitError.
WaitExit ==
  /\ waitPc = "wait"
  /\ \/ /\ exited
        /\ exitCode' = exitStatus
     \/ /\ variant = "HostSSH" /\ pipeClosed /\ ~exited
        /\ exitCode' = 0
  /\ exitCh' = (variant # "DirectExecContainerd")
  /\ waitPc' = "end"
  /\ UNCHANGED <<cmdVars, dockerVars, pipeVars, stdoutDone, stderrDone,
                 outVars, errPc, connVars, frames, brokerVars, requestVars,
                 extraVars>>

(***************************************************************************)
(* Connection.processRemoteInput and the end of Handle.                    *)
(***************************************************************************)
\* What a client that runs a non-interactive command makes NextReader
\* return: it sends `close session`, it breaks the connection, or it closes
\* the connection after it received the close frame.
ClientOutcomes == {"close session", "read error", "unexpected EOF"}

HasCloseFrame == \E k \in 1..Len(frames) : frames[k].type = "close"

\* Session.Clean on a session it was called on n times before: what the
\* call can give.  dockerSession.Clean sets conn to nil after closing it, and
\* the next call dereferences the nil conn.
CleanOutcomes(v, n) ==
  IF IsDocker(v) /\ n > 0 THEN {"panic"} ELSE CleanResults(v)

\* processRemoteInput returns: errCh gets the error, if any, and the
\* deferred calls close doneCh and errCh.
InEnd(o) ==
  /\ inPc = "read" /\ client = "connected"
  /\ o = "unexpected EOF" => HasCloseFrame
  /\ client' = o
  /\ owed' = IF o = "close session" THEN StdoutOf(SubSeq(script, 1, pos))
             ELSE owed
  /\ errCh' = ErrChResult(o)
  /\ doneCh' = TRUE
  /\ inPc' = "end"
  /\ UNCHANGED <<cmdVars, dockerVars, pipeVars, waitVars, outVars, errPc,
                 hdlPc, connOpen, cleans, frames, brokerVars, requestVars,
                 extraVars>>

\* Handle after the receive from errCh: the session is kept, or Clean is
\* called; then the deferred conn.Close().
\* Clean: docker closes the attached connection and removes the sidecar;
\* containerd kills the task and closes the pipe readers; ssh closes the
\* session; nsenter signals the children of the command.
HandleFinish ==
  /\ hdlPc = "errCh" /\ errCh # "open"
  /\ IF ShouldReserve(errCh)
       THEN UNCHANGED <<attachClosed, pipeClosed, exited, cleans>>
       ELSE /\ \E r \in CleanOutcomes(variant, Len(cleans)) :
                 cleans' = Append(cleans, r)
            /\ attachClosed' = (attachClosed \/ IsDocker(variant))
            /\ pipeClosed' = (pipeClosed \/
                              variant \in {"DirectExecContainerd", "HostSSH"})
            /\ exited' = (exited \/
                          variant \in {"SidecarAttached", "DirectExecContainerd"})
  /\ connOpen' = FALSE
  /\ hdlPc' = "end"
  /\ UNCHANGED <<variant, tty, script, pos, exitStatus, attach, demuxPc,
                 stdoutCh, stderrCh, chClosed, outPipe, errPipe, waitVars,
                 outVars, errPc, inPc, doneCh, errCh, client, owed, frames,
                 brokerVars, requestVars, extraVars>>

\* Clean is called once more on a session that was cleaned, as the Session
\* contract allows.  What the first call closed, killed or removed is gone.
CleanAgain ==
  /\ Len(cleans) = 1
  /\ \E r \in CleanOutcomes(variant, Len(cleans)) : cleans' = Append(cleans, r)
  /\ UNCHANGED <<cmdVars, dockerVars, pipeVars, waitVars, outVars, errPc,
                 inPc, doneCh, errCh, hdlPc, connOpen, client, owed, frames,
                 brokerVars, requestVars, extraVars>>

StreamNext ==
  \/ CmdWrite
  \/ \E st \in ExitStatuses : CmdExit(st)
  \/ DemuxUnified
  \/ DemuxSplit
  \/ OutCheck
  \/ OutNext
  \/ OutDone
  \/ OutExitCode
  \/ OutClose
  \/ ErrCheck
  \/ ErrNext
  \/ ErrDone
  \/ WaitSigchld
  \/ WaitContainerdExit
  \/ WaitRecv
  \/ WaitExit
  \/ \E o \in ClientOutcomes : InEnd(o)
  \/ HandleFinish
  \/ CleanAgain

StreamSpec == StreamInit /\ [][StreamNext]_vars

(***************************************************************************)
(* Properties of the broker.                                               *)
(***************************************************************************)
InTable(n) == \E id \in TableIDs : staleSessions[id].serial = n
Reclaimed(n) == \E k \in 1..Len(reclaimLog) : reclaimLog[k] = n
IsSidecar(s) == s \in 1..nextSess /\ backend[s] = "SidecarAttached"
Released(s) == s \in 1..nextSess /\ cleanCount[s] > 0

\* C2: no StaleSession is obtained by two requests, and no two Handle
\* invocations hold the same session at the same time: of the concurrent
\* requests with the same session id and user name one reuses the entry and
\* the others establish a session of their own.
ReclaimIsAtomic ==
  /\ \A j, k \in 1..Len(reclaimLog) : j # k => reclaimLog[j] # reclaimLog[k]
  /\ \A g, h \in Handlers : g # h /\ sess[g] # NoSess => sess[g] # sess[h]

\* Two concurrent requests with the same id and user name: one is wired to
\* the reclaimed session, the other to a session established for it.
ReclaimRaceWitness ==
  \E g, h \in Handlers :
    /\ g # h /\ info[g] = info[h] /\ info[g].SessionID = "S"
    /\ pc[g] = "wire" /\ sess[g] \in reclaimed
    /\ pc[h] = "wire" /\ sess[h] \notin reclaimed /\ sess[h] # NoSess

\* C3: a request holds a reused session only after it found, under its
\* non-empty session id, an entry whose user name is its own; whatever
\* session a request is wired to was established for its own user name.
ReuseOnlyOwnSession ==
  \A h \in Handlers :
    /\ sess[h] # NoSess => owner[sess[h]] = info[h].UserName
    /\ pc[h] = "delete" =>
         /\ info[h].SessionID # ""
         /\ staleSessions[sessID[h]].sess = sess[h]
         /\ staleSessions[sessID[h]].userName = info[h].UserName

\* The second request (user u2, id S) was looked up while the entry of u1
\* was in the table, and is wired to a session of its own.
ForeignUserWitness ==
  /\ served = 2 /\ pc[1] = "wire" /\ pc[2] = "idle"
  /\ info[1].UserName = "u2" /\ info[1].SessionID = "S"
  /\ staleSessions["S"] # NoEntry /\ staleSessions["S"].userName = "u1"

\* C4: an entry leaves the stale table (is deleted or replaced) only in a
\* reclaim by a request with the same session id and user name, or in a
\* pass of the sweeper after its death clock fired.
StaleLeavesOnlyByReclaimOrSweep ==
  [][\A id \in TableIDs :
       (staleSessions[id] # NoEntry
        /\ staleSessions'[id].serial # staleSessions[id].serial)
       => \/ \E h \in Handlers :
               /\ pc[h] = "delete" /\ pc'[h] = "wire" /\ sessID[h] = id
               /\ info[h].UserName = staleSessions[id].userName
          \/ /\ staleSessions[id].expired
             /\ staleSessions[id].serial \in swept'
     ]_vars

\* C5: every StaleSession put in the table is eventually reclaimed or
\* released by the sweeper.
StaleEventuallyResolved ==
  \A n \in 1..MaxRequests : InTable(n) ~> (Reclaimed(n) \/ n \in swept)

\* C6: a sidecar-bound request whose pre-check ran while the live sidecar
\* sessions had reached the limit never gets to EstablishSession.
SidecarCapEnforced ==
  \A h \in Handlers :
    (pc[h] = "establish" /\ BackendOf(info[h]) = "SidecarAttached")
      => ~capReached[h]

\* C7: the counter is never negative, and after the release of a sidecar
\* session it has the value it had before the session was established.
CounterRestored ==
  /\ currentSidecarNum >= 0
  /\ \A s \in Sessions :
       (IsSidecar(s) /\ Released(s)) => numAfter[s] = numBefore[s]

\* A sidecar session was established and released.
CounterRestoredWitness == \E s \in Sessions : IsSidecar(s) /\ Released(s)

\* C8: for a sidecar session that was reserved, reclaimed and finally
\* released, the counter was incremented once and decremented once.
SidecarCountedOnce ==
  \A s \in Sessions :
    (IsSidecar(s) /\ s \in reclaimed /\ Released(s))
      => (incs[s] = 1 /\ decs[s] = 1)

\* C9: when the streams of a connection ended, Handle puts the session in
\* the table exactly when errCh delivered an error, and otherwise calls
\* Clean and leaves no entry for the session; normal close, `close session`,
\* closed-connection and unexpected-EOF reads deliver nil, every other end
\* of the read loop delivers an error.
ReserveIffError ==
  [][/\ \A h \in Handlers :
          (pc[h] = "lock2" /\ pc'[h] = "idle") =>
            IF err[h] # "nil"
              THEN /\ staleSessions'[sessID[h]].sess = sess[h]
                   /\ cleanCount' = cleanCount
              ELSE /\ cleanCount'[sess[h]] = cleanCount[sess[h]] + 1
                   /\ \A id \in TableIDs : staleSessions'[id].sess # sess[h]
     /\ \A o \in ReadOutcomes :
          (ErrChResult(o) = "nil") <=>
            o \in {"normal close", "close session", "unexpected EOF",
                   "use of closed network connection"}
    ]_vars

\* One session was reserved and another was cleaned by Handle itself.
ReserveIffErrorWitness ==
  /\ swept = {}
  /\ \E id \in TableIDs : staleSessions[id] # NoEntry
  /\ \E s \in Sessions : Released(s)

(***************************************************************************)
(* Properties of the stream multiplexer.                                   *)
(***************************************************************************)
RECURSIVE BinaryPayload(_)
\* The payloads of the binary frames of a frame sequence, concatenated.
BinaryPayload(fs) ==
  IF fs = <<>> THEN <<>>
  ELSE (IF Head(fs).type = "binary" THEN Head(fs).data ELSE <<>>)
       \o BinaryPayload(Tail(fs))

ClientStayed == client \in {"connected", "unexpected EOF"}

\* C1: when the client stays connected and the command runs without a tty,
\* the binary frames written before the close frame carry exactly the bytes
\* the command wrote to its stdout, in order, and the Code of the close
\* frame is the exit status of the command.
OutputThenExitStatus ==
  \A k \in 1..Len(frames) :
    (frames[k].type = "close" /\ ClientStayed /\ ~tty)
      => /\ BinaryPayload(SubSeq(frames, 1, k - 1)) = StdoutOf(script)
         /\ frames[k].code = exitStatus

\* C10: a close frame is on the wire only if StdoutDone of the stdout task
\* of this connection has returned.
CloseAfterStdoutDone == HasCloseFrame => doneFired

CloseAfterStdoutDoneWitness ==
  /\ HasCloseFrame /\ doneFired
  /\ \E k \in 1..Len(frames) : frames[k].type = "binary"

\* C11: whenever a close frame is written, both done-signals of the session
\* (StdoutDone and StderrDone) have already been sent, so that the Code it
\* carries was read after the drain.
ExitCodeAfterDrain ==
  [][(Len(frames') > Len(frames) /\ frames'[Len(frames')].type = "close")
       => (doneFired /\ errPc = "end")]_vars

IsPrefix(a, b) == Len(a) <= Len(b) /\ SubSeq(b, 1, Len(a)) = a

\* The binary frames carry the command's stdout alone: every variant
\* without tty but the docker exec, whose stream is forwarded unparsed.
StdoutAlone == ~tty /\ variant # "DirectExec"

\* C12: after a `close session` frame, a close frame is written only when
\* the stdout bytes the command had produced by then have been written to
\* the client in binary frames.
CloseSessionDrains ==
  \A k \in 1..Len(frames) :
    (frames[k].type = "close" /\ client = "close session" /\ StdoutAlone)
      => IsPrefix(owed, BinaryPayload(SubSeq(frames, 1, k - 1)))

RECURSIVE TextPayload(_)
\* The payloads of the text frames of a frame sequence, concatenated.
TextPayload(fs) ==
  IF fs = <<>> THEN <<>>
  ELSE (IF Head(fs).type = "text" THEN Head(fs).data ELSE <<>>)
       \o TextPayload(Tail(fs))

RECURSIVE StderrOf(_)
\* The bytes a script writes to its stderr, in order.
StderrOf(sc) ==
  IF sc = <<>> THEN <<>>
  ELSE (IF Head(sc).fd = 2 THEN Head(sc).data ELSE <<>>) \o StderrOf(Tail(sc))

RECURSIVE AllOf(_)
\* The bytes a script writes to a terminal, in order.
AllOf(sc) == IF sc = <<>> THEN <<>> ELSE Head(sc).data \o AllOf(Tail(sc))

RECURSIVE Muxed(_)
\* The multiplexed stream the Docker daemon sends for a script without tty.
Muxed(sc) ==
  IF sc = <<>> THEN <<>>
  ELSE StdWriterFrame(Head(sc).fd, Head(sc).data) \o Muxed(Tail(sc))

RECURSIVE IsSubseq(_, _)
IsSubseq(a, b) ==
  IF a = <<>> THEN TRUE
  ELSE IF b = <<>> THEN FALSE
  ELSE IF Head(a) = Head(b) THEN IsSubseq(Tail(a), Tail(b))
  ELSE IsSubseq(a, Tail(b))

\* The bytes the backend hands to the session's stdout reader for a script.
StdoutSource(sc) ==
  IF IsDocker(variant)
    THEN IF tty THEN AllOf(sc)
         ELSE IF SplitsOutput(variant, tty) THEN StdoutOf(sc) ELSE Muxed(sc)
    ELSE IF UsesPty(variant, tty) THEN AllOf(sc) ELSE StdoutOf(sc)

\* The bytes the backend hands to the session's stderr reader for a script.
StderrSource(sc) ==
  IF IsDocker(variant)
    THEN IF SplitsOutput(variant, tty) THEN StderrOf(sc) ELSE <<>>
    ELSE IF UsesPty(variant, tty) THEN AllOf(sc) ELSE StderrOf(sc)

\* C13: the binary frames carry, in order and without repetition, the bytes
\* the backend produced on the session's stdout, and the text frames those
\* it produced on the session's stderr.  With a pty both readers take from
\* the same stream, each byte going to one of them.
FramesAreFifo ==
  LET b == BinaryPayload(frames)
      t == TextPayload(frames)
      done == SubSeq(script, 1, pos)
  IN  IF UsesPty(variant, tty)
        THEN /\ IsSubseq(b, AllOf(done)) /\ IsSubseq(t, AllOf(done))
             /\ Len(b) + Len(t) <= Len(AllOf(done))
        ELSE /\ IsPrefix(b, StdoutSource(done))
             /\ IsPrefix(t, StderrSource(done))

FramesAreFifoWitness ==
  /\ SplitsOutput(variant, tty)
  /\ \E j, k \in 1..Len(frames) :
       j < k /\ frames[j].type = "binary" /\ frames[k].type = "binary"
  /\ TextPayload(frames) # <<>>

\* C14: a second call of Clean on a session does not panic and returns nil
\* or the error the first call returned.
CleanIsIdempotent ==
  Len(cleans) = 2 => (cleans[2] # "panic" /\ cleans[2] \in {"nil", cleans[1]})

RECURSIVE Flat(_)
\* The bytes of the readers waiting in a channel, in order.
Flat(ch) == IF ch = <<>> THEN <<>> ELSE Head(ch) \o Flat(Tail(ch))

\* C15: for a docker session without tty, the bytes delivered on the stdout
\* channel are the payloads of the stdout frames of the attached stream and
\* those on the stderr channel the payloads of its stderr frames: nothing
\* else (no header byte), and all of them once the stream is read.  While
\* the connection is open every reader taken from a channel is in a frame.
DemuxIsExact ==
  (IsDocker(variant) /\ ~tty /\ connOpen) =>
    LET o == BinaryPayload(frames) \o Flat(stdoutCh)
        e == TextPayload(frames) \o Flat(stderrCh)
        done == SubSeq(script, 1, pos)
    IN  /\ IsPrefix(o, StdoutOf(done))
        /\ IsPrefix(e, StderrOf(done))
        /\ attach = <<>> => (o = StdoutOf(done) /\ e = StderrOf(done))

(***************************************************************************)
(* One request through Handle, at the level of its headers, the            *)
(* authorization plugin and the texts of the close frames.                 *)
(***************************************************************************)
MaxCmd == 2

maxWebsocketControlMsgLength == 123
CloseNormalClosure == 1000
CloseUnsupportedData == 1007

\* auth.Success and auth.Forbidden; the codes a plugin returns are these,
\* BadRequest (400) and InternalServerErr (500).
Success == 200
Forbidden == 403
AuthCodes == {Success, 400, Forbidden, 500}

\* Values of the Command-Base64-Encode header; its elements are "ls"
\* encoded, a text outside the alphabet, and an encoding without its padding.
B64Lists == UNION {[1..n -> {"bHM=", "!!!", "bHM"}] : n \in 0..MaxCmd}

\* The header sets the clients send; a header is the list of its values.
\* No request of the model carries the numeric headers Cpus and Memory.
Headers ==
  [TargetType : {<<>>, <<"physical">>, <<"container">>, <<"bogus">>},
   PodName : {<<>>, <<"pod-1">>},
   ContainerID : {<<"0123456789ab">>},
   Interactive : {<<>>, <<"true">>, <<"yes">>},
   Tty : {<<>>, <<"yes">>},
   CommandBase64Encode : B64Lists,
   Command : {<<>>, <<"ls">>}]

\* The characters of base64.StdEncoding.
encodeStd ==
  "ABCDEFGHIJKLMNOPQRSTUVWXYZabcdefghijklmnopqrstuvwxyz0123456789+/"

CharAt(s, i) == SubSeq(s, i, i)

\* base64.StdEncoding.DecodeString returns no error: quanta of four
\* characters of the alphabet, the last one padded with one or two "=".
DecodeStringOk(s) ==
  LET n == Len(s)
      pad == IF n >= 2 /\ SubSeq(s, n - 1, n) = "==" THEN 2
             ELSE IF n >= 1 /\ CharAt(s, n) = "=" THEN 1 ELSE 0
  IN  /\ n % 4 = 0
      /\ \A i \in 1..(n - pad) : Contains(encodeStd, CharAt(s, i))

\* The decoding loop that looks at the first element only.
DecodeFailsFirstOnly(list) == list # <<>> /\ ~DecodeStringOk(list[1])

\* The decoding loop of GetRequestInfo returns an error at the first element
\* that fails to decode.
DecodeFails(list) == \E k \in 1..Len(list) : ~DecodeStringOk(list[k])

\* strconv.ParseBool returns no error.
ParseBoolOk(s) ==
  s \in {"1", "t", "T", "TRUE", "true", "True",
         "0", "f", "F", "FALSE", "false", "False"}

\* info.TargetType after the Target-Type header was read: TargetPhys is the
\* zero value.
TargetTypeOf(h) ==
  IF h.TargetType = <<>> THEN "physical" ELSE h.TargetType[1]

\* request.GetRequestInfo: the error it returns ("nil": none).
GetRequestInfo(h) ==
  IF h.TargetType # <<>> /\ h.TargetType[1] \notin {"physical", "container"}
    THEN "request error: invalid target type"
  ELSE IF TargetTypeOf(h) = "container" /\ h.PodName = <<>>
    THEN "request error: no pod name of container target"
  ELSE IF h.Interactive # <<>> /\ ~ParseBoolOk(h.Interactive[1])
    THEN "request error: invalid interactive argument"
  ELSE IF h.Tty # <<>> /\ ~ParseBoolOk(h.Tty[1])
    THEN "request error: invalid tty argument"
  ELSE IF h.CommandBase64Encode = <<>> /\ h.Command = <<>>
    THEN "request error: no command"
  ELSE IF DecodeFails(h.CommandBase64Encode)
    THEN "decoding command error"
  ELSE "nil"

\* Admission that turns away the Forbidden code only.
AdmitsUnlessForbidden(c) == c # Forbidden

\* `authResult.Code != auth.Success` ends the request.
Admits(c) == c = Success

\* Truncation that was left out.
truncWebsocketErrMsgOff(errMsg) == errMsg

\* truncWebsocketErrMsg.
truncWebsocketErrMsg(errMsg) ==
  IF Len(errMsg) > maxWebsocketControlMsgLength
    THEN SubSeq(errMsg, 1, maxWebsocketControlMsgLength)
    ELSE errMsg

\* websocket.FormatCloseMessage: two bytes of status, then the text.
FormatCloseMessage(closeCode, text) == [status |-> closeCode, text |-> text]

\* Errors of containerPreCheck: checkSidecarNum's, and those of the creation
\* of the runtime client in checkContainerRuntime.
PreCheckTexts ==
  {"current sidecar num exceed the limit: 1,1 ",
   "dial unix /run/containerd/containerd.sock: connect: no such file or directory"}

\* Errors of EstablishSession of any variant, and an error text of the
\* runtime daemon that is longer than a control frame.
EstablishTexts ==
  UNION {EstablishErrors(b) : b \in Variants}
  \cup {"create container exec error: Error response from daemon: OCI "
        \o "runtime exec failed: exec failed: unable to start container "
        \o "process: permission denied: unknown",
        "container Client is nil",
        "Cannot connect to the Docker daemon at "
        \o "unix:///var/run/docker.sock. Is the docker daemon running?"}

\* Errors processOutOrErr(false) returns, with the JSON encoding
\* encoding/json gives their exported fields: websocket.ErrCloseSent and
\* other errors.New values, the *fs.PathError of a read of the pty, the
\* *net.OpError of a write to the connection.
OutErrors ==
  {NoErr,
   [text |-> "websocket: close sent", json |-> "{}"],
   [text |-> "websocket: write closed", json |-> "{}"],
   [text |-> "read /dev/ptmx: input/output error",
    json |-> "{\"Op\":\"read\",\"Path\":\"/dev/ptmx\",\"Err\":5}"],
   [text |-> "write tcp 10.0.0.1:5006->10.0.0.2:40000: write: broken pipe",
    json |-> "{\"Op\":\"write\",\"Net\":\"tcp\",\"Source\":{\"IP\":\"10.0.0.1\","
             \o "\"Port\":5006,\"Zone\":\"\"},\"Addr\":{\"IP\":\"10.0.0.2\","
             \o "\"Port\":40000,\"Zone\":\"\"},\"Err\":{\"Syscall\":"
             \o "\"write\",\"Err\":32}}"]}

\* The NormalCloseMessage of processLocalOutput: Err stays nil for a
\* `close sent` error.
NormalCloseMessage(exit, e) ==
  [Code |-> exit,
   Err |-> IF e # NoErr /\ ~Contains(e.text, "close sent") THEN e ELSE NoErr]

\* json.Marshal of a NormalCloseMessage.
Marshal(msg) ==
  "{\"Code\":" \o ToString(msg.Code) \o ",\"Err\":" \o msg.Err.json \o "}"

RequestInit ==
  /\ BrokerInit /\ StreamOff /\ ExtraOff
  /\ header \in Headers
  /\ authHandler \in {"nil", "plugin"}
  /\ authResult = 0
  /\ requestErr = "nil" /\ failure = "nil" /\ reqPc = "start"
  /\ reached = {} /\ closeFrames = <<>> /\ endErr = NoErr
  /\ outEnded = FALSE

\* Handle, lines 129-135: the request information.
ParseHeaders ==
  /\ reqPc = "start"
  /\ requestErr' = GetRequestInfo(header)
  /\ failure' = requestErr'
  /\ reqPc' = IF requestErr' # "nil" THEN "done" ELSE "auth"
  /\ UNCHANGED <<header, authHandler, authResult, reached, closeFrames,
                 endErr, outEnded, brokerVars, streamVars, extraVars>>

\* Handle, lines 140-148: the authorization plugin.
VerifyAccess ==
  /\ reqPc = "auth"
  /\ reached' = reached \cup {"auth"}
  /\ IF authHandler # "nil"
       THEN \E c \in AuthCodes :
              /\ authResult' = c
              /\ IF Admits(c)
                   THEN reqPc' = "upgrade" /\ UNCHANGED failure
                   ELSE reqPc' = "done" /\ failure' = "authorization failed"
       ELSE reqPc' = "upgrade" /\ UNCHANGED <<authResult, failure>>
  /\ UNCHANGED <<header, authHandler, requestErr, closeFrames, endErr,
                 outEnded, brokerVars, streamVars, extraVars>>

\* Handle, lines 153-160: upgrader.Upgrade.
UpgradeConn ==
  /\ reqPc = "upgrade"
  /\ reached' = reached \cup {"upgrade"}
  /\ \E ok \in BOOLEAN : reqPc' = IF ok THEN "reuse" ELSE "done"
  /\ UNCHANGED <<header, authHandler, authResult, requestErr, failure,
                 closeFrames, endErr, outEnded, brokerVars, streamVars,
                 extraVars>>

\* Handle, lines 186-208: the lookup of a stale session of this id and user.
FindStale ==
  /\ reqPc = "reuse"
  /\ reached' = reached \cup {"reuse"}
  /\ \E found \in BOOLEAN :
       reqPc' = IF found THEN "serve"
                ELSE IF TargetTypeOf(header) = "container" THEN "precheck"
                ELSE "establish"
  /\ UNCHANGED <<header, authHandler, authResult, requestErr, failure,
                 closeFrames, endErr, outEnded, brokerVars, streamVars,
                 extraVars>>

\* Handle, lines 209-218: containerPreCheck and its close frame.
ContainerPreCheck ==
  /\ reqPc = "precheck"
  /\ reached' = reached \cup {"precheck"}
  /\ \/ reqPc' = "establish" /\ UNCHANGED <<failure, closeFrames>>
     \/ \E e \in PreCheckTexts :
          LET errMsg == CodeMsg(WrapContainerError(e, header.ContainerID[1]))
          IN  /\ failure' = WrapContainerError(e, header.ContainerID[1])
              /\ closeFrames' = Append(closeFrames,
                   FormatCloseMessage(CloseUnsupportedData,
                     truncWebsocketErrMsg(
                       "Establish session error: " \o errMsg)))
              /\ reqPc' = "done"
  /\ UNCHANGED <<header, authHandler, authResult, requestErr, endErr,
                 outEnded, brokerVars, streamVars, extraVars>>

\* Handle, lines 220-235: EstablishSession and its close frame.
EstablishSession ==
  /\ reqPc = "establish"
  /\ reached' = reached \cup {"establish"}
  /\ \/ reqPc' = "serve" /\ UNCHANGED <<failure, closeFrames>>
     \/ \E e \in EstablishTexts :
          /\ failure' = e
          /\ closeFrames' = Append(closeFrames,
               FormatCloseMessage(CloseUnsupportedData,
                 truncWebsocketErrMsg(
                   "Establish session error: " \o CodeMsg(e))))
          /\ reqPc' = "done"
  /\ UNCHANGED <<header, authHandler, authResult, requestErr, endErr,
                 outEnded, brokerVars, streamVars, extraVars>>

\* processLocalOutput, lines 28-45, which Handle started at line 250 and
\* which may outlive it: the close frame with the exit code.
LocalOutputEnd ==
  /\ reqPc \in {"serve", "done"}
  /\ failure = "nil"
  /\ "reuse" \in reached
  /\ ~outEnded
  /\ \E exit \in ExitStatuses, e \in OutErrors :
       /\ endErr' = e
       /\ closeFrames' = Append(closeFrames,
            FormatCloseMessage(CloseNormalClosure,
              truncWebsocketErrMsg(Marshal(NormalCloseMessage(exit, e)))))
  /\ outEnded' = TRUE
  /\ UNCHANGED <<header, authHandler, authResult, requestErr, failure,
                 reqPc, reached, brokerVars, streamVars, extraVars>>

\* Handle, lines 254-282: the value of errCh arrived, Handle returns.
HandleReturn ==
  /\ reqPc = "serve"
  /\ reqPc' = "done"
  /\ reached' = reached \cup {"serve"}
  /\ UNCHANGED <<header, authHandler, authResult, requestErr, failure,
                 closeFrames, endErr, outEnded, brokerVars, streamVars,
                 extraVars>>

RequestNext ==
  \/ ParseHeaders
  \/ VerifyAccess
  \/ UpgradeConn
  \/ FindStale
  \/ ContainerPreCheck
  \/ EstablishSession
  \/ LocalOutputEnd
  \/ HandleReturn

RequestSpec == RequestInit /\ [][RequestNext]_vars

Frames == {closeFrames[k] : k \in 1..Len(closeFrames)}

\* C16: the text of every close frame the agent hands to the connection,
\* the JSON exit message of a normal closure or the text of an
\* establish-session error, is at most 123 bytes long.
ClosePayloadFits ==
  \A f \in Frames : Len(f.text) <= maxWebsocketControlMsgLength

\* A JSON exit message and an establish-session text that were cut to 123.
ClosePayloadFitsWitness ==
  /\ closeFrames # <<>>
  /\ Len(closeFrames[1].text) = maxWebsocketControlMsgLength
  /\ \/ /\ closeFrames[1].status = CloseNormalClosure
        /\ Len(Marshal(NormalCloseMessage(0, endErr)))
             > maxWebsocketControlMsgLength
     \/ /\ closeFrames[1].status = CloseUnsupportedData
        /\ Len(CodeMsg(failure)) > maxWebsocketControlMsgLength

\* The plugin answered this request with a code other than Success.
AuthDenied == authHandler # "nil" /\ authResult \notin {0, Success}

\* Steps of Handle from the transport upgrade on.
AfterAdmission == {"upgrade", "reuse", "precheck", "establish", "serve"}

\* C17: a request the configured auth handler answered with a code other
\* than Success never reaches the transport upgrade, the lookup of a stale
\* session or the construction of a backend; without a plugin every
\* well-formed request goes on to the upgrade.
DeniedNeverServed ==
  /\ AuthDenied => (reqPc = "done" /\ reached \cap AfterAdmission = {})
  /\ (authHandler = "nil" /\ "auth" \in reached)
       => (reqPc = "upgrade" \/ "upgrade" \in reached)

\* The plugin answered BadRequest and Handle returned.
DeniedNeverServedWitness ==
  AuthDenied /\ authResult = 400 /\ reqPc = "done"

\* A request that is malformed: an element of Command-Base64-Encode that is
\* not base64, an unknown target type, a container target without pod name,
\* or no command at all.
Malformed(h) ==
  \/ \E k \in 1..Len(h.CommandBase64Encode) :
       ~DecodeStringOk(h.CommandBase64Encode[k])
  \/ h.TargetType # <<>> /\ h.TargetType[1] \notin {"physical", "container"}
  \/ h.TargetType = <<"container">> /\ h.PodName = <<>>
  \/ h.CommandBase64Encode = <<>> /\ h.Command = <<>>

\* C18: a request with an element of Command-Base64-Encode that fails to
\* decode, or malformed otherwise, is rejected as a whole: Handle returns
\* with the error, the transport is not upgraded, no stale session is looked
\* up and no backend is constructed.
MalformedRejected ==
  (Malformed(header) /\ reqPc # "start")
    => /\ requestErr # "nil"
       /\ reqPc = "done"
       /\ reached \cap AfterAdmission = {}
       /\ closeFrames = <<>>

\* A list whose first element decodes and whose second does not.
MalformedRejectedWitness ==
  /\ Len(header.CommandBase64Encode) = 2
  /\ DecodeStringOk(header.CommandBase64Encode[1])
  /\ ~DecodeStringOk(header.CommandBase64Encode[2])
  /\ requestErr = "decoding command error"
  /\ reqPc = "done"

\* C19: every failure that is fatal to the request (malformed envelope,
\* authorization denied, runtime unavailable, sidecar cap, backend
\* construction failed) is delivered in one close frame of status
\* "unsupported data" whose text is the truncated `code=<code>,msg=<msg>`.
FatalToRequestDelivered ==
  (reqPc = "done" /\ failure # "nil")
    => closeFrames =
         <<FormatCloseMessage(CloseUnsupportedData,
                              truncWebsocketErrMsg(CodeMsg(failure)))>>

\* C20: when a read or write error ended the stream of a session, the close
\* frame the agent writes has the status "normal closure" and its JSON
\* message begins with the exit code -1.
SessionErrorIsMinusOne ==
  (outEnded /\ NormalCloseMessage(0, endErr).Err # NoErr)
    => \E f \in Frames :
         /\ f.status = CloseNormalClosure
         /\ SubSeq(f.text, 1, 11) = "{\"Code\":-1,"

\* Failures of a container request whose runtime is unavailable: the client
\* could not be constructed in the pre-check (as WrapContainerError words
\* it), the client is nil at establishment, the daemon does not answer.
RuntimeDown ==
  {"docker is unavailable",
   "container Client is nil",
   "Cannot connect to the Docker daemon at "
   \o "unix:///var/run/docker.sock. Is the docker daemon running?"}

\* C21: a container request that fails because the container runtime is
\* unavailable is answered with a close frame whose text carries the code
\* MA_524.
RuntimeDownIsMA524 ==
  (reqPc = "done" /\ failure \in RuntimeDown)
    => \E f \in Frames : Contains(f.text, "code=MA_524")

(***************************************************************************)
(* BlockingBuffer of the client: one goroutine calls Read, another one     *)
(* calls Write and then Close (agentConn.ProcessMsg).                      *)
(***************************************************************************)
MaxBufWrites == 2
MaxReadLen == 2
MaxLeak == 2

\* The bytes of the k-th Write.
Chunk(k) == <<2 * k - 1, 2 * k>>

\* Non-blocking send that never signals.
TrySendNever(sig) == sig

\* `select { case b.signal <- struct{}{}: default: }` on the channel of
\* capacity 1.
TrySend(sig) == IF sig < 1 THEN sig + 1 ELSE sig

\* sync.RWMutex: Lock and RLock can be acquired.
CanLockRW == rw.writer = "none" /\ rw.readers = 0
CanRLock == rw.writer = "none"

\* Close has been called.
CloseCalled ==
  wrPc \in {"sleep", "lenw", "closesig", "closelock"} \/ readBuffer = NilBuffer

EOF == [n |-> 0, err |-> "EOF"]

\* NewBlockingBuffer.
BufferInit ==
  /\ BrokerInit /\ StreamOff /\ RequestOff /\ UtilOff /\ ReclaimOff
  /\ WriteOff /\ SplitOff
  /\ readBuffer = <<>> /\ writeBuffer = <<>> /\ signal = 0
  /\ signalClosed = FALSE /\ rw = [writer |-> "none", readers |-> 0]
  /\ rdPc = "idle" /\ wrPc = "idle" /\ readLen = 0 /\ wrote = 0
  /\ accepted = <<>> /\ returned = <<>>
  /\ lastRead = [n |-> 0, err |-> "none"]

\* A call of Read with a buffer of 1..MaxReadLen bytes.
ReadCall ==
  /\ rdPc = "idle"
  /\ rw.readers < MaxLeak
  /\ \E n \in 1..MaxReadLen : readLen' = n
  /\ rdPc' = "rlock"
  /\ UNCHANGED <<readBuffer, writeBuffer, signal, signalClosed, rw, wrPc,
                 wrote, accepted, returned, lastRead, nonBufferVars>>

\* Read, lines 45-57: RLock, the nil test (which returns with the lock
\* held), readBuffer.Read(p), RUnlock.
ReadBuffered ==
  /\ rdPc = "rlock"
  /\ CanRLock
  /\ IF readBuffer = NilBuffer
       THEN /\ rw' = [rw EXCEPT !.readers = @ + 1]
            /\ lastRead' = EOF
            /\ rdPc' = "idle"
            /\ UNCHANGED <<readBuffer, returned>>
       ELSE IF readBuffer = <<>>
         THEN /\ rdPc' = "recv"
              /\ UNCHANGED <<readBuffer, returned, rw, lastRead>>
         ELSE LET n == IF Len(readBuffer) < readLen
                         THEN Len(readBuffer) ELSE readLen
              IN  /\ returned' = returned \o Take(readBuffer, n)
                  /\ readBuffer' = Drop(readBuffer, n)
                  /\ lastRead' = [n |-> n, err |-> "nil"]
                  /\ rdPc' = "idle"
                  /\ UNCHANGED rw
  /\ UNCHANGED <<writeBuffer, signal, signalClosed, wrPc, readLen, wrote,
                 accepted, nonBufferVars>>

\* Read, lines 61-65: the receive from b.signal.
ReadSignal ==
  /\ rdPc = "recv"
  /\ \/ /\ signal > 0
        /\ signal' = signal - 1
        /\ rdPc' = "swap"
        /\ UNCHANGED lastRead
     \/ /\ signal = 0 /\ signalClosed
        /\ lastRead' = EOF
        /\ rdPc' = "idle"
        /\ UNCHANGED signal
  /\ UNCHANGED <<readBuffer, writeBuffer, signalClosed, rw, wrPc, readLen,
                 wrote, accepted, returned, nonBufferVars>>

\* Read, lines 68-78: Lock, the nil test (which returns with the lock
\* held), the write buffer becomes the read buffer, Unlock.
ReadSwap ==
  /\ rdPc = "swap"
  /\ CanLockRW
  /\ IF readBuffer = NilBuffer
       THEN /\ rw' = [rw EXCEPT !.writer = "Read"]
            /\ lastRead' = EOF
            /\ rdPc' = "idle"
            /\ UNCHANGED <<readBuffer, writeBuffer>>
       ELSE /\ readBuffer' = writeBuffer
            /\ writeBuffer' = <<>>
            /\ rdPc' = "rlock"
            /\ UNCHANGED <<rw, lastRead>>
  /\ UNCHANGED <<signal, signalClosed, wrPc, readLen, wrote, accepted,
                 returned, nonBufferVars>>

\* Write, lines 84-91: Lock, the nil test (which returns with the lock
\* held), writeBuffer.Write(p), Unlock.
WriteBuffered ==
  /\ wrPc = "idle"
  /\ wrote < MaxBufWrites
  /\ CanLockRW
  /\ IF writeBuffer = NilBuffer
       THEN /\ rw' = [rw EXCEPT !.writer = "Write"]
            /\ wrote' = wrote + 1
            /\ UNCHANGED <<writeBuffer, accepted, wrPc>>
       ELSE /\ writeBuffer' = writeBuffer \o Chunk(wrote + 1)
            /\ accepted' = accepted \o Chunk(wrote + 1)
            /\ wrPc' = "notify"
            /\ UNCHANGED <<rw, wrote>>
  /\ UNCHANGED <<readBuffer, signal, signalClosed, rdPc, readLen, returned,
                 lastRead, nonBufferVars>>

\* Write, lines 94-99: the non-blocking send on b.signal.
WriteSignal ==
  /\ wrPc = "notify"
  /\ signal' = TrySend(signal)
  /\ wrote' = wrote + 1
  /\ wrPc' = "idle"
  /\ UNCHANGED <<readBuffer, writeBuffer, signalClosed, rw, rdPc, readLen,
                 accepted, returned, lastRead, nonBufferVars>>

\* Close, line 104: b.readBuffer.Len() != 0, read without the lock.
CloseLenRead ==
  /\ wrPc \in {"idle", "sleep"}
  /\ readBuffer # NilBuffer
  /\ wrPc' = IF Len(readBuffer) # 0 THEN "sleep" ELSE "lenw"
  /\ UNCHANGED <<readBuffer, writeBuffer, signal, signalClosed, rw, rdPc,
                 readLen, wrote, accepted, returned, lastRead, nonBufferVars>>

\* Close, line 104: b.writeBuffer.Len() != 0, read without the lock.
CloseLenWrite ==
  /\ wrPc = "lenw"
  /\ wrPc' = IF Len(writeBuffer) # 0 THEN "sleep" ELSE "closesig"
  /\ UNCHANGED <<readBuffer, writeBuffer, signal, signalClosed, rw, rdPc,
                 readLen, wrote, accepted, returned, lastRead, nonBufferVars>>

\* Close, line 108: close(b.signal).
CloseSignal ==
  /\ wrPc = "closesig"
  /\ signalClosed' = TRUE
  /\ wrPc' = "closelock"
  /\ UNCHANGED <<readBuffer, writeBuffer, signal, rw, rdPc, readLen, wrote,
                 accepted, returned, lastRead, nonBufferVars>>

\* Close, lines 109-115: Lock, both buffers reset and set to nil, Unlock.
CloseNil ==
  /\ wrPc = "closelock"
  /\ CanLockRW
  /\ readBuffer' = NilBuffer
  /\ writeBuffer' = NilBuffer
  /\ wrPc' = "idle"
  /\ UNCHANGED <<signal, signalClosed, rw, rdPc, readLen, wrote, accepted,
                 returned, lastRead, nonBufferVars>>

BufferNext ==
  \/ ReadCall
  \/ ReadBuffered
  \/ ReadSignal
  \/ ReadSwap
  \/ WriteBuffered
  \/ WriteSignal
  \/ CloseLenRead
  \/ CloseLenWrite
  \/ CloseSignal
  \/ CloseNil

BufferSpec == BufferInit /\ [][BufferNext]_vars

\* A goroutine that is inside Read or Write takes its next step.
FairBufferSpec ==
  /\ BufferSpec
  /\ WF_vars(ReadBuffered)
  /\ WF_vars(ReadSignal)
  /\ WF_vars(ReadSwap)
  /\ WF_vars(WriteSignal)

\* C22: a Read returns EOF only after Close was called and every byte
\* written before has been returned by Read; a Read that returns after the
\* buffer was closed returns (0, EOF).
EofOnlyAfterDrain ==
  [][(rdPc # "idle" /\ rdPc' = "idle")
       => /\ lastRead'.err = "EOF" => (CloseCalled /\ returned' = accepted')
          /\ readBuffer = NilBuffer => lastRead' = EOF]_vars

\* Bytes are pending in the buffer.
Pending ==
  /\ readBuffer # NilBuffer
  /\ readBuffer # <<>> \/ writeBuffer # <<>>

\* C23: with one writer and one reader, the bytes the Reads returned are a
\* prefix of the bytes the Writes accepted, and a Read in progress while
\* bytes are pending returns (as long as Close does not come in between).
ReadsFollowWrites ==
  /\ []IsPrefix(returned, accepted)
  /\ (rdPc # "idle" /\ Pending) ~> (rdPc = "idle" \/ CloseCalled)

\* The second chunk was written while the first was being read, and both
\* were returned by Reads of one byte.
ReadsFollowWritesWitness ==
  /\ returned = Chunk(1) \o Chunk(2)
  /\ readLen = 1
  /\ rdPc = "idle"
  /\ readBuffer # NilBuffer

\* C39: once Close has returned, a Read that is called returns (every
\* return path of Read and Write has released the lock it took, so the
\* call does not block).
ReadAfterCloseReturns ==
  (readBuffer = NilBuffer /\ rdPc = "rlock") ~> (rdPc = "idle")

(***************************************************************************)
(* Functions and helper goroutines checked on their own: a call is drawn   *)
(* in the initial state and the action of the function applies it.         *)
(***************************************************************************)
MaxContainers == 2

HasPrefix(s, prefix) ==
  Len(s) >= Len(prefix) /\ SubSeq(s, 1, Len(prefix)) = prefix

defaultSidecarImage == "trust-tunnel-sidecar:latest"

\* The image sidecars are created from: sidecar_config.image, or the default
\* one when it is blank (PullMissingImage).
SidecarImageOf(image) == IF image = "" THEN defaultSidecarImage ELSE image

\* Containers the runtime lists: image, state and age in seconds.
ListedContainers ==
  [Image : {"trust-tunnel-sidecar:latest", "trust-tunnel-sidecar:latest-arm",
            "registry.example.com/tt-sidecar:v2", "nginx:1.25"},
   State : {"running", "exited"},
   Age : {3600, 3601}]

SweepCalls ==
  {[fn |-> "CleanLegacy", image |-> i, containers |-> cs] :
     i \in {"", "registry.example.com/tt-sidecar:v2"},
     cs \in [1..MaxContainers -> ListedContainers]}

\* One pass of CleanLegacyContainerPeriodically: the containers of the list
\* (by position) it calls ContainerRemove with Force on.
CleanLegacy ==
  /\ call.fn = "CleanLegacy"
  /\ ret = <<>>
  /\ ret' = <<{k \in DOMAIN call.containers :
                 LET c == call.containers[k]
                 IN  /\ HasPrefix(c.Image, defaultSidecarImage)
                     /\ c.State # "running"
                     /\ c.Age > 3600}>>
  /\ UNCHANGED <<call, nonUtilVars>>

\* C24: a pass of the legacy-sidecar sweeper force-removes exactly the
\* containers whose image name begins with the configured sidecar image,
\* whose state is not "running" and which were created more than one hour
\* ago.
SweepsConfiguredImage ==
  (call.fn = "CleanLegacy" /\ ret # <<>>)
    => ret[1] = {k \in DOMAIN call.containers :
                   LET c == call.containers[k]
                   IN  /\ HasPrefix(c.Image, SidecarImageOf(call.image))
                       /\ c.State # "running"
                       /\ c.Age > 3600}

\* The largest int of a build whose int has 32 bits.
maxInt == 2147483647

IsDigit(c) == Contains("0123456789", c)

DigitOf(c) == CHOOSE d \in 0..9 : CharAt("0123456789", d + 1) = c

\* The digits of s from position i on, added to the magnitude acc; neg tells
\* the sign. A magnitude out of range gives the nearest int and ErrRange.
RECURSIVE ParseDigits(_, _, _, _)
ParseDigits(s, i, acc, neg) ==
  IF i > Len(s) THEN [n |-> IF neg THEN 0 - acc ELSE acc, err |-> "nil"]
  ELSE IF ~IsDigit(CharAt(s, i)) THEN [n |-> 0, err |-> "ErrSyntax"]
  ELSE LET d == DigitOf(CharAt(s, i))
       IN  IF acc < 214748364 \/ (acc = 214748364 /\ d <= 7)
             THEN ParseDigits(s, i + 1, acc * 10 + d, neg)
           ELSE IF \E k \in (i + 1)..Len(s) : ~IsDigit(CharAt(s, k))
             THEN [n |-> 0, err |-> "ErrSyntax"]
           ELSE IF neg /\ acc = 214748364 /\ d = 8 /\ i = Len(s)
             THEN [n |-> 0 - maxInt - 1, err |-> "nil"]
           ELSE [n |-> IF neg THEN 0 - maxInt - 1 ELSE maxInt,
                 err |-> "ErrRange"]

\* strconv.Atoi: the int and the error it returns.
Atoi(s) ==
  LET signed == Len(s) > 0 /\ CharAt(s, 1) \in {"+", "-"}
      first == IF signed THEN 2 ELSE 1
  IN  IF first > Len(s) THEN [n |-> 0, err |-> "ErrSyntax"]
      ELSE ParseDigits(s, first, 0, signed /\ CharAt(s, 1) = "-")

\* bytes.Split(msg, []byte(",")).
RECURSIVE Split(_)
Split(s) ==
  IF \E i \in 1..Len(s) : CharAt(s, i) = ","
    THEN LET i == CHOOSE j \in 1..Len(s) :
                    /\ CharAt(s, j) = ","
                    /\ \A k \in 1..(j - 1) : CharAt(s, k) # ","
         IN  <<SubSeq(s, 1, i - 1)>> \o Split(SubSeq(s, i + 1, Len(s)))
    ELSE <<s>>

resizeHeader == "resize: "
closeHeader == "close session"

\* Payloads of the text frames a client sends.
TextCalls ==
  {[fn |-> "TextMessage", msg |-> t] :
     t \in {"resize: 24,80", "resize: 0,0", "resize: 24,", "resize: 24",
            "resize: ,", "resize: -1,80", "resize: 24,80,1",
            "resize: +24,80", "resize: 24, 80", "resize: h,w",
            "resize: 2147483647,1", "resize: 4294967296,80",
            "resize: 24,-9999999999", "resize:24,80", "close session",
            "ls", ""}}

\* processRemoteInput, lines 347-379: one text frame. The result tells the
\* call of Resize (<<>>: none), the error sent on errCh and whether the
\* loop goes on.
TextMessage ==
  /\ call.fn = "TextMessage"
  /\ ret = <<>>
  /\ ret' =
       IF call.msg = ""
         THEN <<[resize |-> <<>>, errCh |-> "read from remote error: EOF",
                 loop |-> "return"]>>
       ELSE IF HasPrefix(call.msg, resizeHeader)
         THEN LET vals == Split(SubSeq(call.msg, Len(resizeHeader) + 1,
                                       Len(call.msg)))
                  h == Atoi(vals[1]).n
                  w == Atoi(vals[2]).n
              IN  <<[resize |-> IF Len(vals) = 2 /\ h > 0 /\ w > 0
                                  THEN <<h, w>> ELSE <<>>,
                     errCh |-> "nil", loop |-> "continue"]>>
       ELSE IF HasPrefix(call.msg, closeHeader)
         THEN <<[resize |-> <<>>, errCh |-> "nil", loop |-> "return"]>>
       ELSE <<[resize |-> <<>>, errCh |-> "nil", loop |-> "continue"]>>
  /\ UNCHANGED <<call, nonUtilVars>>

\* The height and width of a payload `resize: H,W` whose H and W both parse
\* to integers above zero (<<>> for any other payload).
PositivePair(msg) ==
  LET vals == Split(SubSeq(msg, Len(resizeHeader) + 1, Len(msg)))
  IN  IF /\ HasPrefix(msg, resizeHeader)
         /\ Len(vals) = 2
         /\ Atoi(vals[1]).err = "nil" /\ Atoi(vals[1]).n > 0
         /\ Atoi(vals[2]).err = "nil" /\ Atoi(vals[2]).n > 0
        THEN <<Atoi(vals[1]).n, Atoi(vals[2]).n>>
        ELSE <<>>

\* C25: a text frame `resize: H,W` calls Resize only when H and W both
\* parse to integers above zero; any other resize payload is ignored: no
\* call of Resize, no error on errCh, and the loop goes on.
ResizeOnlyPositive ==
  (call.fn = "TextMessage" /\ ret # <<>>)
    => /\ ret[1].resize = PositivePair(call.msg)
       /\ HasPrefix(call.msg, resizeHeader)
            => (ret[1].errCh = "nil" /\ ret[1].loop = "continue")

BadRequest == 400
InternalServerErr == 500
StatusOK == 200

\* Bodies an authorization server answers with.
Bodies ==
  {"{\"code\":200}", "{\"code\":403}", "{\"code\":0}", "{\"code\":500}",
   "{\"code\":\"200\"}", "{\"code\":200", "{}", "null", "", "OK"}

\* json.NewDecoder(resp.Body).Decode(&authResponse): the code decoded and
\* the error. A body without the field leaves the code at zero.
DecodeBody(body) ==
  LET open == "{\"code\":"
  IN  IF body \in {"{}", "null"} THEN [Code |-> 0, err |-> "nil"]
      ELSE IF /\ HasPrefix(body, open)
              /\ Len(body) > Len(open) + 1
              /\ CharAt(body, Len(body)) = "}"
              /\ Atoi(SubSeq(body, Len(open) + 1, Len(body) - 1)).err = "nil"
        THEN [Code |-> Atoi(SubSeq(body, Len(open) + 1, Len(body) - 1)).n,
              err |-> "nil"]
      ELSE [Code |-> 0, err |-> "decode error"]

\* (the status test with every status accepted)
StatusAny(status) == TRUE

\* resp.StatusCode != http.StatusOK is the failure.
StatusAccepted(status) == status = StatusOK

\* One call of the plugin: whether json.Marshal and http.Post succeed, and
\* the status and the body of the answer.
AuthCalls ==
  {[fn |-> "VerifyAccessPermission", marshal |-> ma, post |-> po,
    status |-> st, body |-> bo] :
     ma \in {"nil", "unsupported type"},
     po \in {"nil", "connection refused"},
     st \in {StatusOK, 204, 403, 500},
     bo \in Bodies}

\* AuthHandler.VerifyAccessPermission of the example plugin.
VerifyAccessPermission ==
  /\ call.fn = "VerifyAccessPermission"
  /\ ret = <<>>
  /\ ret' =
       IF call.marshal # "nil"
         THEN <<[Code |-> BadRequest, ErrMsg |-> call.marshal]>>
       ELSE IF call.post # "nil"
         THEN <<[Code |-> InternalServerErr, ErrMsg |-> call.post]>>
       ELSE IF ~StatusAccepted(call.status)
         THEN <<[Code |-> InternalServerErr, ErrMsg |-> ""]>>
       ELSE IF DecodeBody(call.body).err # "nil"
         THEN <<[Code |-> InternalServerErr,
                 ErrMsg |-> DecodeBody(call.body).err]>>
       ELSE IF DecodeBody(call.body).Code # Success
         THEN <<[Code |-> Forbidden, ErrMsg |-> ""]>>
       ELSE <<[Code |-> Success, ErrMsg |-> ""]>>
  /\ UNCHANGED <<call, nonUtilVars>>

\* The server was reached and answered HTTP 200.
Answered200 ==
  call.marshal = "nil" /\ call.post = "nil" /\ call.status = 200

\* C26: the example plugin fails closed: it returns Success only when the
\* server answers HTTP 200 with a body whose code is Success; a body with
\* another code gives Forbidden; a marshal, transport, status or decode
\* failure gives a code other than Success.
PluginFailsClosed ==
  (call.fn = "VerifyAccessPermission" /\ ret # <<>>)
    => /\ ret[1].Code = Success
            <=> (Answered200 /\ call.body = "{\"code\":200}")
       /\ (Answered200 /\ call.body \in {"{\"code\":403}", "{\"code\":0}",
                                         "{\"code\":500}", "{}", "null"})
            => ret[1].Code = Forbidden
       /\ (~Answered200 \/ call.body \in {"{\"code\":\"200\"}",
                                          "{\"code\":200", "", "OK"})
            => ret[1].Code \in {BadRequest, InternalServerErr}

PluginFailsClosedWitness ==
  /\ call.fn = "VerifyAccessPermission"
  /\ ret # <<>>
  /\ call.marshal = "nil"
  /\ call.post = "nil"
  /\ call.status = 500
  /\ call.body = "{\"code\":200}"
  /\ ret[1].Code = InternalServerErr

HasSuffix(s, suffix) ==
  Len(s) >= Len(suffix) /\ SubSeq(s, Len(s) - Len(suffix) + 1, Len(s)) = suffix

\* strings.Split(s, sep) for a separator of one character.
RECURSIVE SplitBy(_, _)
SplitBy(s, sep) ==
  IF \E i \in 1..Len(s) : CharAt(s, i) = sep
    THEN LET i == CHOOSE j \in 1..Len(s) :
                    /\ CharAt(s, j) = sep
                    /\ \A k \in 1..(j - 1) : CharAt(s, k) # sep
         IN  <<SubSeq(s, 1, i - 1)>> \o SplitBy(SubSeq(s, i + 1, Len(s)), sep)
    ELSE <<s>>

expectedPasswdSegmentsCount == 7

\* Passwd files under the rootfs prefix, as the lines ReadString('\n') cuts
\* them into; only the last line may lack its newline.
PasswdFiles ==
  {<<"root:x:0:0:root:/root:/bin/bash\n",
     "daemon:x:1:1:daemon:/usr/sbin:/usr/sbin/nologin\n",
     "alice:x:1000:1000::/home/alice:/bin/zsh\n",
     "git:x:998:998::/home/git:/usr/bin/git-shell\n">>,
   <<"bob:x:1001:1001::/home/bob:/bin/false\n",
     "svc:x:1002:1002:nologin account:/home/svc:/bin/sh\n",
     "broken:x:1:1\n",
     "alice:x:1000:1000::/home/alice:/sbin/nologin\n",
     "alice:x:1200:1200::/srv/alice:/bin/sh\n",
     "carol:x:1003:1003::/home/carol:/bin/bash">>,
   <<>>}

LoginNames ==
  {"", "root", "daemon", "alice", "git", "bob", "svc", "broken", "carol",
   "nobody"}

NoUser == [uid |-> "", gid |-> "", loginDir |-> ""]

\* findUser: the uid, gid and login directory of the first line of the file,
\* from position i on, that names the user and passes the shell test.
RECURSIVE findUser(_, _, _)
findUser(username, passwd, i) ==
  IF i > Len(passwd) \/ ~HasSuffix(passwd[i], "\n") THEN NoUser
  ELSE LET line == passwd[i]
           segs == SplitBy(line, ":")
       IN  IF Len(segs) # expectedPasswdSegmentsCount
             THEN findUser(username, passwd, i + 1)
           ELSE IF segs[1] # username
             THEN findUser(username, passwd, i + 1)
           ELSE IF ~Contains(line, "nologin") /\ HasSuffix(segs[7], "sh\n")
             THEN [uid |-> segs[3], gid |-> segs[4], loginDir |-> segs[6]]
           ELSE findUser(username, passwd, i + 1)

GetUserInfo(username, passwd) == findUser(username, passwd, 1)

HostCalls ==
  {[fn |-> "EstablishHost", target |-> t, LoginName |-> n, passwd |-> f] :
     t \in {"HostNsEnter", "HostSSH"}, n \in LoginNames, f \in PasswdFiles}

\* establishNsenterSession up to the start of nsenter, and
\* establishSSHSession up to the dial: the identity the session runs with
\* (uid "" for nsenter: no -S and -G, the command runs as the agent does),
\* or the refusal.
EstablishHost ==
  /\ call.fn = "EstablishHost"
  /\ ret = <<>>
  /\ LET u == GetUserInfo(call.LoginName, call.passwd)
     IN  ret' =
           IF call.target = "HostNsEnter"
             THEN IF call.LoginName # "" /\ u.uid = ""
                    THEN <<[established |-> FALSE,
                            err |-> "user does not exist:" \o call.LoginName]>>
                  ELSE IF call.LoginName # ""
                    THEN <<[established |-> TRUE, uid |-> u.uid,
                            gid |-> u.gid, wd |-> u.loginDir]>>
                  ELSE <<[established |-> TRUE, uid |-> "", gid |-> "",
                          wd |-> ""]>>
           ELSE IF Len(u.loginDir) = 0
             THEN <<[established |-> FALSE,
                     err |-> "username " \o call.LoginName
                             \o " is not permitted to login on host"]>>
           ELSE <<[established |-> TRUE, uid |-> ToString(Atoi(u.uid).n),
                   gid |-> ToString(Atoi(u.gid).n), wd |-> u.loginDir]>>
  /\ UNCHANGED <<call, nonUtilVars>>

\* The line is a passwd entry of the name whose shell is not nologin and
\* ends in sh.
LoginEntry(line, name) ==
  LET segs == SplitBy(line, ":")
      shell == IF HasSuffix(segs[7], "\n")
                 THEN SubSeq(segs[7], 1, Len(segs[7]) - 1) ELSE segs[7]
  IN  /\ Len(segs) = 7
      /\ segs[1] = name
      /\ ~HasSuffix(shell, "nologin")
      /\ HasSuffix(shell, "sh")

\* C27: a host session is established for a login name only if the passwd
\* file has an entry of that name whose shell is not nologin and ends in
\* sh, and then with the uid, gid and login directory of such an entry;
\* for every other login name, a missing or empty one included, it is
\* refused.
HostLoginChecked ==
  (call.fn = "EstablishHost" /\ ret # <<>> /\ ret[1].established)
    => \E k \in 1..Len(call.passwd) :
         /\ LoginEntry(call.passwd[k], call.LoginName)
         /\ LET segs == SplitBy(call.passwd[k], ":")
            IN  /\ ret[1].uid = segs[3]
                /\ ret[1].gid = segs[4]
                /\ ret[1].wd = segs[6]

\* What the runtime answers to the image inspection, to the pull and to
\* the second inspection.
ImageStates == {"present", "missing", "inspect error"}
PullResults == {"pulled", "pull error", "read error", "still missing"}

\* PullMissingImage with force = false: the image to use, the error, and
\* whether ImagePull was called.
PullMissingImage(image, state, pull) ==
  LET img == SidecarImageOf(image)
  IN  IF state = "inspect error"
        THEN [image |-> "", err |-> "inspect: internal error", pulls |-> 0]
      ELSE IF state = "present"
        THEN [image |-> img, err |-> "nil", pulls |-> 0]
      ELSE IF pull = "pull error"
        THEN [image |-> "", err |-> "pull access denied", pulls |-> 1]
      ELSE IF pull = "read error"
        THEN [image |-> "",
              err |-> "failed to read image pulling content: unexpected EOF",
              pulls |-> 1]
      ELSE IF pull = "pulled"
        THEN [image |-> img, err |-> "nil", pulls |-> 1]
      ELSE [image |-> "", err |-> "failed to pull image " \o img,
            pulls |-> 1]

SidecarCalls ==
  {[fn |-> "attachSidecar", LoginName |-> n, image |-> i, state |-> s,
    pull |-> p, create |-> c, attach |-> a, start |-> t] :
     n \in {"", "root"}, i \in {"", "registry.example.com/tt-sidecar:v2"},
     s \in ImageStates, p \in PullResults,
     c \in {"nil", "No such container"},
     a \in {"nil", "context deadline exceeded"},
     t \in {"nil", "OCI runtime create failed"}}

\* attachSidecar: the error returned, the number of image pulls, the number
\* of sidecar containers created and the number of them removed again.
attachSidecar ==
  /\ call.fn = "attachSidecar"
  /\ ret = <<>>
  /\ LET pm == PullMissingImage(call.image, call.state, call.pull)
     IN  ret' =
           IF pm.err # "nil"
             THEN <<[err |-> pm.err, pulls |-> pm.pulls, created |-> 0,
                     removed |-> 0]>>
           ELSE IF call.LoginName = ""
             THEN <<[err |-> "empty login name isn't allowed",
                     pulls |-> pm.pulls, created |-> 0, removed |-> 0]>>
           ELSE IF call.create # "nil"
             THEN <<[err |-> "create container exec error: " \o call.create,
                     pulls |-> pm.pulls, created |-> 0, removed |-> 0]>>
           ELSE IF call.attach # "nil"
             THEN <<[err |-> "attach to container error: " \o call.attach,
                     pulls |-> pm.pulls, created |-> 1, removed |-> 0]>>
           ELSE IF call.start # "nil"
             THEN <<[err |-> "start container error: " \o call.start,
                     pulls |-> pm.pulls, created |-> 1, removed |-> 0]>>
           ELSE <<[err |-> "nil", pulls |-> pm.pulls, created |-> 1,
                   removed |-> 0]>>
  /\ UNCHANGED <<call, nonUtilVars>>

\* C28: a request for a sidecar with an empty login name gets the same
\* error whatever the state of the runtime (image present, missing or pull
\* failing), and no sidecar container is created.
EmptyLoginSameError ==
  (call.fn = "attachSidecar" /\ call.LoginName = "" /\ ret # <<>>)
    => /\ ret[1].err = "empty login name isn't allowed"
       /\ ret[1].created = 0

\* C38: when attachSidecar fails, no sidecar container it created is left
\* in the runtime.
FailedAttachLeavesNothing ==
  (call.fn = "attachSidecar" /\ ret # <<>> /\ ret[1].err # "nil")
    => ret[1].created = ret[1].removed

\* The lines bufio's ReadString('\n') returns without error: each line of
\* the content that ends in a newline, the newline included. What follows
\* the last newline comes with io.EOF and is dropped by the callers.
CompleteLines(content) ==
  LET segs == SplitBy(content, "\n")
  IN  [k \in 1..(Len(segs) - 1) |-> segs[k] \o "\n"]

\* The loop of addPublicKeyToAuthorizedKeys from line i on; acc is
\* newContent.
RECURSIVE ScanAuthorizedKeys(_, _, _, _)
ScanAuthorizedKeys(lines, i, keyStr, acc) ==
  IF i > Len(lines) THEN [keyFound |-> FALSE, newContent |-> acc \o keyStr]
  ELSE IF Contains(lines[i], keyStr)
    THEN [keyFound |-> TRUE, newContent |-> acc]
  ELSE IF ~HasSuffix(lines[i], "trust-tunnel-agent")
    THEN ScanAuthorizedKeys(lines, i + 1, keyStr, acc \o lines[i])
  ELSE ScanAuthorizedKeys(lines, i + 1, keyStr, acc)

addPublicKeyToAuthorizedKeys(keyStr, content) ==
  ScanAuthorizedKeys(CompleteLines(content), 1, keyStr, "")

\* Contents of the public key file of the agent.
PubKeys ==
  {"ssh-rsa K1 trust-tunnel-agent\n", "ssh-rsa K1 trust-tunnel-agent",
   "ssh-rsa K1 trust-tunnel-agent\n\n", ""}

\* Contents of authorized_keys before the first run (empty: the file was
\* missing and is created).
KeyFiles ==
  {"", "ssh-rsa U1 user\n", "ssh-rsa U1 user",
   "ssh-rsa K1 trust-tunnel-agent\n", "ssh-rsa K1 trust-tunnel-agent",
   "ssh-rsa OLD trust-tunnel-agent\nssh-rsa U1 user\n",
   "ssh-rsa U1 user\nssh-rsa OLD trust-tunnel-agent",
   "ssh-rsa U1 user\nno-pty ssh-rsa K1 trust-tunnel-agent\n\n"}

KeyCalls ==
  {[fn |-> "insertPubKeyOnHost", key |-> k, content |-> f, lookup |-> l] :
     k \in PubKeys, f \in KeyFiles,
     l \in {"nil", "username is not permitted to login on host"}}

\* insertPubKeyOnHost, run up to twice in a row: ret holds the content of
\* authorized_keys after each run.
insertPubKeyOnHost ==
  /\ call.fn = "insertPubKeyOnHost"
  /\ Len(ret) < 2
  /\ LET content == IF ret = <<>> THEN call.content ELSE ret[Len(ret)]
         r == addPublicKeyToAuthorizedKeys(call.key, content)
     IN  ret' = Append(ret, IF call.lookup # "nil" \/ r.keyFound
                              THEN content ELSE r.newContent)
  /\ UNCHANGED <<call, nonUtilVars>>

AllLines(content) ==
  LET segs == SplitBy(content, "\n")
      n == Len(segs)
  IN  [k \in 1..(IF segs[n] = "" THEN n - 1 ELSE n) |->
         IF k < n THEN segs[k] \o "\n" ELSE segs[k]]

\* The text of a line ends in the marker.
MarkerLine(line) ==
  HasSuffix(IF HasSuffix(line, "\n") THEN SubSeq(line, 1, Len(line) - 1)
            ELSE line,
            "trust-tunnel-agent")

RECURSIVE Unmarked(_, _)
\* The lines from index i on that do not end in the marker, in order.
Unmarked(lines, i) ==
  IF i > Len(lines) THEN ""
  ELSE (IF MarkerLine(lines[i]) THEN "" ELSE lines[i])
         \o Unmarked(lines, i + 1)

\* C40: when the key of the agent is not in authorized_keys, the file is
\* rewritten as its lines that do not end in the marker, in their order
\* (a last line without a newline included), followed by the key.
RewriteKeepsForeignLines ==
  (call.fn = "insertPubKeyOnHost" /\ call.lookup = "nil" /\ ret # <<>>
     /\ ~Contains(call.content, call.key))
    => ret[1] = Unmarked(AllLines(call.content), 1) \o call.key

\* sessionutil.Contains: str is an element of slice.
SliceContains(slice, str) == \E k \in 1..Len(slice) : slice[k] = str

RECURSIVE ChildrenFrom(_, _, _)
\* sessionutil.FindChildProcesses: the range over processes from index i on;
\* every child is followed by its own descendants.
ChildrenFrom(targetPPID, processes, i) ==
  IF i > Len(processes) THEN <<>>
  ELSE IF processes[i].PPID = targetPPID
    THEN <<processes[i].PID>>
           \o ChildrenFrom(processes[i].PID, processes, 1)
           \o ChildrenFrom(targetPPID, processes, i + 1)
    ELSE ChildrenFrom(targetPPID, processes, i + 1)

FindChildProcesses(targetPPID, processes) ==
  ChildrenFrom(targetPPID, processes, 1)

\* sessionutil.ReverseSlice.
ReverseSlice(slice) == [k \in 1..Len(slice) |-> slice[Len(slice) + 1 - k]]

\* sessionutil.KillProcess: the pids that get SIGTERM, and the error.
KillProcess(pid, alive) ==
  IF alive THEN [err |-> "nil", signalled |-> <<pid>>]
  ELSE [err |-> "os: process already finished", signalled |-> <<>>]

\* sessionutil.KillProcessGroup: the probe with signal 0, the test of the
\* command line of the parent, then SIGTERM to every descendant.
KillProcessGroup(parentPID, commandLine, inverted, alive, cmdLines, processes) ==
  IF ~alive THEN [err |-> "nil", signalled |-> <<>>]
  ELSE IF commandLine # "" /\ ~SliceContains(cmdLines, commandLine)
    THEN [err |-> "nil", signalled |-> <<>>]
  ELSE LET childPIDs == FindChildProcesses(parentPID, processes)
       IN  [err |-> "nil",
            signalled |-> IF inverted THEN ReverseSlice(childPIDs)
                          ELSE childPIDs]

\* dockerSession.cleanLegacyProcess: nothing for an exec session; for a
\* sidecar the descendants of the container's process, then the process.
cleanLegacyProcess(isExec, pid, alive, cmdLines, processes) ==
  IF isExec THEN [err |-> "nil", signalled |-> <<>>]
  ELSE LET g == KillProcessGroup(pid, "/superman.sh", TRUE, alive, cmdLines,
                                 processes)
           k == KillProcess(pid, alive)
       IN  IF g.err # "nil" /\ ~Contains(g.err, "process already finished")
             THEN g
             ELSE [err |-> k.err, signalled |-> g.signalled \o k.signalled]

\* nsenterSession.Clean.
nsenterClean(pid, alive, cmdLines, processes) ==
  KillProcessGroup(pid, "nsenter", FALSE, alive, cmdLines, processes)

\* The command line of the process that has the recorded pid now (split at
\* the NUL bytes of /proc/<pid>/cmdline): the sidecar's, the nsenter
\* command's, or that of a process that took the pid over.
CmdLineChoices ==
  {<<"/bin/sh", "/superman.sh", "">>, <<"nsenter", "-t", "1", "-m", "">>,
   <<"nginx", "-g", "">>}

\* Process tables: pid 10 is the recorded parent; 11 and 12 hang below it
\* or below init.
ProcTables ==
  {<<[PID |-> 10, PPID |-> 1], [PID |-> 11, PPID |-> p1],
     [PID |-> 12, PPID |-> p2]>> : p1 \in {1, 10}, p2 \in {1, 10, 11}}

CleanKinds == {"sidecar", "exec", "nsenter"}

ProcessCalls ==
  {[fn |-> "CleanProcesses", kind |-> k, alive |-> a, cmdLines |-> c,
    processes |-> t] :
     k \in CleanKinds, a \in BOOLEAN, c \in CmdLineChoices, t \in ProcTables}

\* The sentinel the cleanup of a session kind looks for.
SentinelOf(kind) == IF kind = "nsenter" THEN "nsenter" ELSE "/superman.sh"

\* Clean of a session: the signals it sends.
CleanProcesses ==
  /\ call.fn = "CleanProcesses"
  /\ ret = <<>>
  /\ ret' = <<IF call.kind = "nsenter"
                THEN nsenterClean(10, call.alive, call.cmdLines,
                                  call.processes)
                ELSE cleanLegacyProcess(call.kind = "exec", 10, call.alive,
                                        call.cmdLines, call.processes)>>
  /\ UNCHANGED <<call, nonUtilVars>>

\* C37: unless the command line of the recorded parent holds the sentinel,
\* the cleanup of a session signals no process: neither the parent nor any
\* of its descendants.
SignalsOnlyBehindSentinel ==
  (call.fn = "CleanProcesses" /\ ret # <<>>
     /\ ~SliceContains(call.cmdLines, SentinelOf(call.kind)))
    => ret[1].signalled = <<>>

\* (the calls and the specification of this part)
Calls ==
  SweepCalls \cup TextCalls \cup AuthCalls \cup HostCalls \cup SidecarCalls
    \cup KeyCalls \cup ProcessCalls

UtilInit ==
  /\ BrokerInit /\ StreamOff /\ RequestOff /\ BufferOff /\ ReclaimOff
  /\ WriteOff /\ SplitOff
  /\ call \in Calls
  /\ ret = <<>>

UtilNext ==
  \/ CleanLegacy
  \/ TextMessage
  \/ VerifyAccessPermission
  \/ EstablishHost
  \/ attachSidecar
  \/ insertPubKeyOnHost
  \/ CleanProcesses

UtilSpec == UtilInit /\ [][UtilNext]_vars

(***************************************************************************)
(* One session served by two connections in turn: the connection that     *)
(* broke and the connection that reclaims the session (docker session     *)
(* with split output).                                                     *)
(***************************************************************************)
MaxChunks == 2

Conns == {"old", "new"}
Streams == {"stdout", "stderr"}

\* The channel nsenterSession.wait receives from next.
WaitsFor(st) == IF st = "stdout" THEN "stdoutDone" ELSE "stderrDone"

ReclaimInit ==
  /\ BrokerInit /\ StreamOff /\ RequestOff /\ BufferOff /\ UtilOff
  /\ WriteOff /\ SplitOff
  /\ sessPhase = "live"
  /\ sessKind \in {"docker", "nsenter"}
  /\ outChans = [st \in Streams |-> <<>>]
  /\ producedN = 0
  /\ backendEof = FALSE
  /\ sessWait = IF sessKind = "nsenter" THEN "stdoutDone" ELSE "off"
  /\ connEnded = [c \in Conns |-> FALSE]
  /\ doneClosed = [c \in Conns |-> FALSE]
  /\ taskPc = [c \in Conns |->
                 [st \in Streams |-> IF c = "old" THEN "check" ELSE "off"]]
  /\ taskChunk = [c \in Conns |-> [st \in Streams |-> 0]]
  /\ localOut = [c \in Conns |-> IF c = "old" THEN "run" ELSE "off"]
  /\ closeFrame = [c \in Conns |-> "none"]
  /\ sent = [c \in Conns |-> <<>>]
  /\ lostChunks = {}
  /\ doneBuf = [st \in Streams |-> 0]
  /\ reclaimMark = 0

\* streamSplitOutput, or the command writing to its pipes: the backend
\* hands the next chunk to the stdout or the stderr of the session.
ProduceChunk(st) ==
  /\ sessPhase # "off"
  /\ ~backendEof
  /\ producedN < MaxChunks
  /\ producedN' = producedN + 1
  /\ outChans' = [outChans EXCEPT ![st] = Append(@, producedN + 1)]
  /\ UNCHANGED <<sessPhase, connEnded, doneClosed, taskPc, taskChunk, sent,
                 lostChunks, doneBuf, reclaimMark, sessKind, backendEof,
                 sessWait, localOut, closeFrame, nonReclaimVars>>

\* The command exits: the demuxer closes both channels (docker), the pipes
\* of the command reach EOF (nsenter).
BackendExit ==
  /\ sessPhase # "off"
  /\ ~backendEof
  /\ backendEof' = TRUE
  /\ UNCHANGED <<sessPhase, outChans, producedN, connEnded, doneClosed,
                 taskPc, taskChunk, sent, lostChunks, doneBuf, reclaimMark,
                 sessKind, sessWait, localOut, closeFrame, nonReclaimVars>>

\* processOutOrErr: the non-blocking receive from doneCh at the head of
\* the loop.
TaskCheckDone(c, st) ==
  /\ taskPc[c][st] = "check"
  /\ taskPc' = [taskPc EXCEPT ![c][st] =
                  IF doneClosed[c] THEN "signal" ELSE "next"]
  /\ UNCHANGED <<sessPhase, outChans, producedN, connEnded, doneClosed,
                 taskChunk, sent, lostChunks, doneBuf, reclaimMark,
                 sessKind, backendEof, sessWait, localOut, closeFrame,
                 nonReclaimVars>>

\* processOutOrErr: NextStdout / NextStderr, the receive from the output
\* of the session; it blocks while there is no output, and returns io.EOF
\* (the task returns) once the output has ended.
TaskNext(c, st) ==
  /\ taskPc[c][st] = "next"
  /\ IF outChans[st] # <<>>
       THEN /\ taskChunk' = [taskChunk EXCEPT ![c][st] = Head(outChans[st])]
            /\ outChans' = [outChans EXCEPT ![st] = Tail(@)]
            /\ taskPc' = [taskPc EXCEPT ![c][st] = "write"]
       ELSE /\ backendEof
            /\ taskPc' = [taskPc EXCEPT ![c][st] = "signal"]
            /\ UNCHANGED <<taskChunk, outChans>>
  /\ UNCHANGED <<sessPhase, producedN, connEnded, doneClosed, sent,
                 lostChunks, doneBuf, reclaimMark, sessKind, backendEof,
                 sessWait, localOut, closeFrame, nonReclaimVars>>

\* processOutOrErr: sessConn.write; on a websocket that is gone it fails
\* and the task returns.
TaskWrite(c, st) ==
  /\ taskPc[c][st] = "write"
  /\ IF connEnded[c]
       THEN /\ lostChunks' = lostChunks \cup {taskChunk[c][st]}
            /\ taskPc' = [taskPc EXCEPT ![c][st] = "signal"]
            /\ sent' = sent
       ELSE /\ sent' = [sent EXCEPT ![c] = Append(@, taskChunk[c][st])]
            /\ taskPc' = [taskPc EXCEPT ![c][st] = "check"]
            /\ lostChunks' = lostChunks
  /\ taskChunk' = [taskChunk EXCEPT ![c][st] = 0]
  /\ UNCHANGED <<sessPhase, outChans, producedN, connEnded, doneClosed,
                 doneBuf, reclaimMark, sessKind, backendEof, sessWait,
                 localOut, closeFrame, nonReclaimVars>>

\* processOutOrErr: the deferred StdoutDone / StderrDone. The channel has
\* capacity 1 in dockerSession; in nsenterSession it has none, and the send
\* is taken by the receive of wait. When the stdout task has returned,
\* processLocalOutput goes on to ExitCode.
TaskSignalDone(c, st) ==
  /\ taskPc[c][st] = "signal"
  /\ IF sessKind = "docker"
       THEN /\ doneBuf[st] < 1
            /\ doneBuf' = [doneBuf EXCEPT ![st] = @ + 1]
            /\ sessWait' = sessWait
       ELSE /\ sessWait = WaitsFor(st)
            /\ sessWait' = IF st = "stdout" THEN "stderrDone" ELSE "cmdWait"
            /\ doneBuf' = doneBuf
  /\ taskPc' = [taskPc EXCEPT ![c][st] = "returned"]
  /\ localOut' = IF st = "stdout" THEN [localOut EXCEPT ![c] = "exitCode"]
                 ELSE localOut
  /\ UNCHANGED <<sessPhase, outChans, producedN, connEnded, doneClosed,
                 taskChunk, sent, lostChunks, reclaimMark, sessKind,
                 backendEof, closeFrame, nonReclaimVars>>

\* nsenterSession.wait after both receives: getExitCode waits for the
\* command, then exitCh is closed.
WaitCommand ==
  /\ sessWait = "cmdWait"
  /\ backendEof
  /\ sessWait' = "exited"
  /\ UNCHANGED <<sessPhase, outChans, producedN, connEnded, doneClosed,
                 taskPc, taskChunk, sent, lostChunks, doneBuf, reclaimMark,
                 sessKind, backendEof, localOut, closeFrame, nonReclaimVars>>

\* processLocalOutput: sess.ExitCode(). dockerSession receives from
\* stdoutDone and then from stderrDone; nsenterSession receives from exitCh
\* or gives up after two seconds.
ExitCodeCall(c) ==
  /\ localOut[c] \in {"exitCode", "exitStderr"}
  /\ IF sessKind = "docker"
       THEN LET st == IF localOut[c] = "exitCode" THEN "stdout" ELSE "stderr"
            IN  /\ doneBuf[st] > 0
                /\ doneBuf' = [doneBuf EXCEPT ![st] = @ - 1]
                /\ localOut' = [localOut EXCEPT ![c] =
                                  IF st = "stdout" THEN "exitStderr"
                                  ELSE "close"]
       ELSE /\ localOut' = [localOut EXCEPT ![c] = "close"]
            /\ doneBuf' = doneBuf
  /\ UNCHANGED <<sessPhase, outChans, producedN, connEnded, doneClosed,
                 taskPc, taskChunk, sent, lostChunks, reclaimMark, sessKind,
                 backendEof, sessWait, closeFrame, nonReclaimVars>>

\* processLocalOutput: the close frame.
WriteCloseFrame(c) ==
  /\ localOut[c] = "close"
  /\ localOut' = [localOut EXCEPT ![c] = "done"]
  /\ closeFrame' = [closeFrame EXCEPT ![c] =
                      IF connEnded[c] THEN "failed" ELSE "sent"]
  /\ UNCHANGED <<sessPhase, outChans, producedN, connEnded, doneClosed,
                 taskPc, taskChunk, sent, lostChunks, doneBuf, reclaimMark,
                 sessKind, backendEof, sessWait, nonReclaimVars>>

\* processRemoteInput of the first connection: the read from the client
\* fails; the error goes to errCh and the deferred call closes doneCh.
RemoteReadFails ==
  /\ sessPhase = "live"
  /\ sessPhase' = "broken"
  /\ connEnded' = [connEnded EXCEPT !["old"] = TRUE]
  /\ doneClosed' = [doneClosed EXCEPT !["old"] = TRUE]
  /\ UNCHANGED <<outChans, producedN, taskPc, taskChunk, sent, lostChunks,
                 doneBuf, reclaimMark, sessKind, backendEof, sessWait,
                 localOut, closeFrame, nonReclaimVars>>

\* Handle of the first connection: the error received from errCh puts the
\* session into handler.staleSessions.
ReserveSession ==
  /\ sessPhase = "broken"
  /\ sessPhase' = "stale"
  /\ UNCHANGED <<outChans, producedN, connEnded, doneClosed, taskPc,
                 taskChunk, sent, lostChunks, doneBuf, reclaimMark,
                 sessKind, backendEof, sessWait, localOut, closeFrame,
                 nonReclaimVars>>

\* Handle of the second connection: it takes the session out of
\* handler.staleSessions and starts its own three goroutines.
ReclaimSession ==
  /\ sessPhase = "stale"
  /\ sessPhase' = "reclaimed"
  /\ reclaimMark' = producedN
  /\ taskPc' = [taskPc EXCEPT !["new"] = [st \in Streams |-> "check"]]
  /\ localOut' = [localOut EXCEPT !["new"] = "run"]
  /\ UNCHANGED <<outChans, producedN, connEnded, doneClosed, taskChunk,
                 sent, lostChunks, doneBuf, sessKind, backendEof, sessWait,
                 closeFrame, nonReclaimVars>>

ReclaimNext ==
  \/ \E st \in Streams : ProduceChunk(st)
  \/ BackendExit
  \/ \E c \in Conns, st \in Streams : TaskCheckDone(c, st)
  \/ \E c \in Conns, st \in Streams : TaskNext(c, st)
  \/ \E c \in Conns, st \in Streams : TaskWrite(c, st)
  \/ \E c \in Conns, st \in Streams : TaskSignalDone(c, st)
  \/ WaitCommand
  \/ \E c \in Conns : ExitCodeCall(c)
  \/ \E c \in Conns : WriteCloseFrame(c)
  \/ RemoteReadFails
  \/ ReserveSession
  \/ ReclaimSession

ReclaimSpec == ReclaimInit /\ [][ReclaimNext]_vars

\* Every goroutine that can take a step takes one in the end.
FairReclaimSpec ==
  /\ ReclaimSpec
  /\ \A c \in Conns, st \in Streams :
       /\ WF_vars(TaskCheckDone(c, st))
       /\ WF_vars(TaskNext(c, st))
       /\ WF_vars(TaskWrite(c, st))
       /\ WF_vars(TaskSignalDone(c, st))
  /\ \A c \in Conns : WF_vars(ExitCodeCall(c)) /\ WF_vars(WriteCloseFrame(c))
  /\ WF_vars(WaitCommand)

\* C30: once a stale session is reclaimed, the outbound tasks of the
\* previous connection take no chunk the backend produces from then on:
\* none of those chunks is held by such a task or lost to the connection
\* that ended.
NoOutputToDeadConn ==
  sessPhase = "reclaimed"
    => /\ \A k \in lostChunks : k <= reclaimMark
       /\ \A st \in Streams : taskChunk["old"][st] <= reclaimMark

\* C31: after a reclaim, once the output of the backend has reached EOF
\* the reclaiming connection writes its close frame in the end: its
\* StdoutDone and StderrDone calls do not block forever.
ReclaimedGetsCloseFrame ==
  (sessPhase = "reclaimed" /\ backendEof) ~> (closeFrame["new"] = "sent")

\* A Handle invocation is waiting on the streams of session s.
WaitingOn(s) == \E h \in Handlers : pc[h] = "wire" /\ sess[h] = s

\* C32: a session is never in the stale table while a Handle invocation
\* is still waiting on its streams, and Clean is called on a session at
\* most once, whatever the interleaving of Handle, reclaim and the sweeper.
SingleOwnership ==
  /\ \A id \in TableIDs :
       staleSessions[id] # NoEntry => ~WaitingOn(staleSessions[id].sess)
  /\ \A s \in Sessions : cleanCount[s] <= 1

\* A session was reserved, reclaimed and released by the second Handle.
SingleOwnershipWitness ==
  \E s \in Sessions :
    /\ s \in reclaimed
    /\ cleanCount[s] = 1
    /\ \A id \in TableIDs :
         staleSessions[id] = NoEntry \/ staleSessions[id].sess # s

(***************************************************************************)
(* The critical sections of the broker step by step: handler.lock is      *)
(* taken, releaseSession runs, handler.lock is given back.                 *)
(***************************************************************************)
\* Handle after a clean end of the streams: handler.lock.Lock().
ReleaseLock(h) ==
  /\ pc[h] = "lock2"
  /\ CanLock(lock)
  /\ ~ShouldReserve(err[h])
  /\ lock' = h
  /\ pc' = [pc EXCEPT ![h] = "release"]
  /\ UNCHANGED <<handlerLocals, staleSessions, currentSidecarNum,
                 sessionVars, served, history>>
  /\ UNCHANGED <<streamVars, requestVars, extraVars>>

\* Handle: `err = handler.releaseSession(sessID, sess)` (sess.Clean(), then
\* the delete), the conditional decrement and handler.lock.Unlock().
ReleaseClean(h) ==
  /\ pc[h] = "release"
  /\ lock = h
  /\ lock' = NoOne
  /\ \E cleanErr \in CleanResults(backend[sess[h]]) :
       LET dec == ShouldDecrement(cleanErr, isSidecarSession[h])
           num == IF dec THEN currentSidecarNum - 1 ELSE currentSidecarNum
       IN /\ currentSidecarNum' = num
          /\ decs' = [decs EXCEPT ![sess[h]] = IF dec THEN @ + 1 ELSE @]
          /\ numAfter' = [numAfter EXCEPT ![sess[h]] = num]
  /\ cleanCount' = [cleanCount EXCEPT ![sess[h]] = @ + 1]
  /\ staleSessions' = [staleSessions EXCEPT ![sessID[h]] = NoEntry]
  /\ Returned(h)
  /\ UNCHANGED <<nextSess, backend, owner, served, nextSerial,
                 reclaimLog, reclaimed, swept, incs, numBefore>>
  /\ UNCHANGED <<streamVars, requestVars, extraVars>>

\* delayReleaseSession: the ticker fires and handler.lock.Lock() returns.
SweepLock ==
  /\ CanLock(lock)
  /\ \E id \in TableIDs : staleSessions[id] # NoEntry
  /\ lock' = Sweeper
  /\ UNCHANGED <<pc, handlerLocals, staleSessions, currentSidecarNum,
                 sessionVars, served, history>>
  /\ UNCHANGED <<streamVars, requestVars, extraVars>>

\* delayReleaseSession: the range over the table (releaseSession for every
\* entry whose death clock fired) and handler.lock.Unlock().
SweepPass ==
  /\ lock = Sweeper
  /\ lock' = NoOne
  /\ LET due == {id \in TableIDs : staleSessions[id] # NoEntry
                                   /\ staleSessions[id].expired}
         dueSess == {staleSessions[id].sess : id \in due}
     IN /\ \E failed \in SUBSET {id \in due :
                "clean error" \in CleanResults(backend[staleSessions[id].sess])} :
          LET decIds == {id \in due :
                ShouldDecrement(IF id \in failed THEN "clean error" ELSE "nil",
                                staleSessions[id].isSidecarSession)}
              num == currentSidecarNum - Cardinality(decIds)
          IN /\ currentSidecarNum' = num
             /\ decs' = [s \in Sessions |->
                          IF \E id \in decIds : staleSessions[id].sess = s
                            THEN decs[s] + 1 ELSE decs[s]]
             /\ numAfter' = [s \in Sessions |->
                              IF s \in dueSess THEN num ELSE numAfter[s]]
             /\ cleanCount' = [s \in Sessions |->
                                IF s \in dueSess THEN cleanCount[s] + 1
                                ELSE cleanCount[s]]
             /\ staleSessions' = [id \in TableIDs |->
                                   IF id \in due THEN NoEntry
                                   ELSE staleSessions[id]]
             /\ swept' = swept \cup {staleSessions[id].serial : id \in due}
  /\ UNCHANGED <<pc, handlerLocals, nextSess, backend, owner, served,
                 nextSerial, reclaimLog, reclaimed, capReached, incs,
                 numBefore>>
  /\ UNCHANGED <<streamVars, requestVars, extraVars>>

StepNext ==
  \/ \E h \in Handlers, i \in RequestInfos : Accept(h, i)
  \/ \E h \in Handlers : Lookup(h)
  \/ \E h \in Handlers : DeleteReused(h)
  \/ \E h \in Handlers : PreCheck(h)
  \/ \E h \in Handlers : EstablishFail(h)
  \/ \E h \in Handlers : Establish(h)
  \/ \E h \in Handlers, o \in ReadOutcomes : StreamsEnd(h, o)
  \/ \E h \in Handlers : Reserve(h)
  \/ \E h \in Handlers : ReleaseLock(h)
  \/ \E h \in Handlers : ReleaseClean(h)
  \/ \E h \in Handlers : ReturnAfterError(h)
  \/ \E id \in TableIDs : DeathClockFires(id)
  \/ SweepLock
  \/ SweepPass

StepSpec == Init /\ [][StepNext]_vars

\* C33: handler.lock is held only for manipulations of the table and the
\* counter, never across I/O: no Clean of a session is called by Handle or
\* by the sweeper while the lock is held.
LockNotAcrossClean ==
  [][\A s \in Sessions : cleanCount'[s] # cleanCount[s] => lock = NoOne]_vars

(***************************************************************************)
(* The writes of one Connection to its websocket, call by call: the        *)
(* stdout task, the stderr task and the close frame of                     *)
(* processLocalOutput.                                                     *)
(***************************************************************************)
MaxFrames == 2

Tasks == {"stdout", "stderr"}
Writers == Tasks \cup {"close"}

\* A Lock that does not wait.
CanLockConnAny(holder) == TRUE

\* sessConn.lock.Lock() returns only when nobody holds the lock.
CanLockConn(holder) == holder = "none"

\* The goroutine is inside a call of the websocket: NextWriter, io.Copy,
\* msgWriter.Close or WriteMessage.
InTransport(w) == writerPc[w] \in {"nextWriter", "copy", "closeWriter", "message"}

WriteInit ==
  /\ BrokerInit /\ StreamOff /\ RequestOff /\ BufferOff /\ UtilOff
  /\ ReclaimOff /\ SplitOff
  /\ connLock = "none"
  /\ writerPc = [w \in Writers |-> IF w = "close" THEN "wait" ELSE "next"]
  /\ readersLeft \in [Tasks -> 0..MaxFrames]
  /\ writeErr = [w \in Writers |-> "nil"]
  /\ netOpen = TRUE
  /\ wire = <<>>

\* The client goes away: every later call of the websocket fails.
NetFails ==
  /\ netOpen
  /\ netOpen' = FALSE
  /\ UNCHANGED <<connLock, writerPc, readersLeft, writeErr, wire,
                 nonWriteVars>>

\* processOutOrErr: NextStdout / NextStderr returns a reader, or io.EOF and
\* the task returns.
TaskReader(t) ==
  /\ writerPc[t] = "next"
  /\ IF readersLeft[t] > 0
       THEN /\ readersLeft' = [readersLeft EXCEPT ![t] = @ - 1]
            /\ writerPc' = [writerPc EXCEPT ![t] = "lock"]
       ELSE /\ writerPc' = [writerPc EXCEPT ![t] = "returned"]
            /\ UNCHANGED readersLeft
  /\ UNCHANGED <<connLock, writeErr, netOpen, wire, nonWriteVars>>

\* Connection.write and processLocalOutput: sessConn.lock.Lock().
ConnLock(w) ==
  /\ writerPc[w] = "lock"
  /\ CanLockConn(connLock)
  /\ connLock' = w
  /\ writerPc' = [writerPc EXCEPT ![w] =
                    IF w = "close" THEN "message" ELSE "nextWriter"]
  /\ UNCHANGED <<readersLeft, writeErr, netOpen, wire, nonWriteVars>>

\* Connection.write: sessConn.conn.NextWriter; on an error msgWriter is nil
\* and write returns.
TaskNextWriter(t) ==
  /\ writerPc[t] = "nextWriter"
  /\ IF netOpen
       THEN /\ writerPc' = [writerPc EXCEPT ![t] = "copy"]
            /\ UNCHANGED writeErr
       ELSE /\ writerPc' = [writerPc EXCEPT ![t] = "unlock"]
            /\ writeErr' = [writeErr EXCEPT ![t] = "writer error"]
  /\ UNCHANGED <<connLock, readersLeft, netOpen, wire, nonWriteVars>>

\* Connection.write: io.Copy(msgWriter, reader).
TaskCopy(t) ==
  /\ writerPc[t] = "copy"
  /\ writeErr' = [writeErr EXCEPT ![t] =
                    IF netOpen THEN "nil" ELSE "copy error"]
  /\ writerPc' = [writerPc EXCEPT ![t] = "closeWriter"]
  /\ UNCHANGED <<connLock, readersLeft, netOpen, wire, nonWriteVars>>

\* Connection.write: the deferred msgWriter.Close() completes the message.
TaskCloseWriter(t) ==
  /\ writerPc[t] = "closeWriter"
  /\ wire' = IF netOpen /\ writeErr[t] = "nil"
               THEN Append(wire, IF t = "stderr" THEN "text" ELSE "binary")
               ELSE wire
  /\ writerPc' = [writerPc EXCEPT ![t] = "unlock"]
  /\ UNCHANGED <<connLock, readersLeft, writeErr, netOpen, nonWriteVars>>

\* The deferred sessConn.lock.Unlock(). A task whose write failed returns;
\* processLocalOutput returns after the close frame.
ConnUnlock(w) ==
  /\ writerPc[w] = "unlock"
  /\ connLock' = "none"
  /\ writerPc' = [writerPc EXCEPT ![w] =
                    IF w = "close" \/ writeErr[w] # "nil"
                      THEN "returned" ELSE "next"]
  /\ UNCHANGED <<readersLeft, writeErr, netOpen, wire, nonWriteVars>>

\* processLocalOutput: processOutOrErr(false) has returned; ExitCode and
\* json.Marshal are done.
CloseReady ==
  /\ writerPc["close"] = "wait"
  /\ writerPc["stdout"] = "returned"
  /\ writerPc' = [writerPc EXCEPT !["close"] = "lock"]
  /\ UNCHANGED <<connLock, readersLeft, writeErr, netOpen, wire,
                 nonWriteVars>>

\* processLocalOutput: conn.WriteMessage(websocket.CloseMessage, ...).
CloseMessage ==
  /\ writerPc["close"] = "message"
  /\ wire' = IF netOpen THEN Append(wire, "close") ELSE wire
  /\ writerPc' = [writerPc EXCEPT !["close"] = "unlock"]
  /\ UNCHANGED <<connLock, readersLeft, writeErr, netOpen, nonWriteVars>>

WriteNext ==
  \/ NetFails
  \/ \E t \in Tasks : TaskReader(t)
  \/ \E w \in Writers : ConnLock(w)
  \/ \E t \in Tasks : TaskNextWriter(t)
  \/ \E t \in Tasks : TaskCopy(t)
  \/ \E t \in Tasks : TaskCloseWriter(t)
  \/ \E w \in Writers : ConnUnlock(w)
  \/ CloseReady
  \/ CloseMessage

WriteSpec == WriteInit /\ [][WriteNext]_vars

\* C34: the writes to the websocket of a connection exclude one another:
\* at no time are two of the stdout task, the stderr task and the close
\* frame inside a call of the websocket.
WritesExclusive ==
  \A w1, w2 \in Writers : InTransport(w1) /\ InTransport(w2) => w1 = w2

\* The stderr task is inside a write while the close frame waits for the
\* lock.
WritesExclusiveWitness ==
  /\ writerPc["stderr"] = "copy"
  /\ writerPc["close"] = "lock"

(***************************************************************************)
(* dockerSession.streamSplitOutput read by read, on a stream that can      *)
(* carry frames of any type and can break at any byte.                     *)
(***************************************************************************)
\* Stream types of a frame header other than stdout (1) and stderr (2):
\* stdin (0) and a type the agent does not know (3).
ForeignTypes == {0, 3}

DemuxInit ==
  /\ BrokerInit /\ StreamStart /\ RequestOff
  /\ BufferOff /\ UtilOff /\ ReclaimOff /\ WriteOff /\ SplitOff
  /\ variant = "SidecarAttached" /\ ~tty

\* The daemon sends a frame of one byte whose header names another stream
\* than stdout or stderr.
ForeignFrame(ty) ==
  /\ ~exited /\ ~attachClosed /\ attach = <<>>
  /\ attach' = StdWriterFrame(ty, <<120>>)
  /\ UNCHANGED <<cmdVars, attachClosed, demuxPc, stdoutCh, stderrCh, chClosed,
                 pipeVars, waitVars, outVars, errPc, connVars, frames,
                 brokerVars, requestVars, extraVars>>

\* The attached connection ends (dockerSession.Clean closes it, or the
\* daemon goes away) when n bytes of the stream have arrived.
AttachCut(n) ==
  /\ ~attachClosed /\ n <= Len(attach)
  /\ attach' = Take(attach, n)
  /\ attachClosed' = TRUE
  /\ UNCHANGED <<cmdVars, demuxPc, stdoutCh, stderrCh, chClosed,
                 pipeVars, waitVars, outVars, errPc, connVars, frames,
                 brokerVars, requestVars, extraVars>>

\* streamSplitOutput: Peek and Discard of the header. A failing Peek closes
\* both channels.
SplitPeek ==
  /\ demuxPc = "read"
  /\ IF Len(attach) >= stdWriterPrefixLen
       THEN LET frameSize == Uint32(SubSeq(attach, stdWriterSizeIndex + 1,
                                           stdWriterSizeIndex + 4))
            IN  /\ attach' = Drop(attach, stdWriterPrefixLen)
                /\ frameHdr' = [stream |-> attach[stdWriterFdIndex + 1],
                                left |-> frameSize]
                /\ demuxPc' = IF frameSize <= 0 THEN "read" ELSE "payload"
                /\ UNCHANGED chClosed
       ELSE /\ attachClosed \/ exited
            /\ chClosed' = TRUE
            /\ demuxPc' = "done"
            /\ UNCHANGED <<attach, frameHdr>>
  /\ UNCHANGED <<cmdVars, attachClosed, stdoutCh, stderrCh, pipeVars,
                 waitVars, outVars, errPc, connVars, frames, brokerVars,
                 requestVars, bufferVars, utilVars, reclaimVars, writeVars>>

\* streamSplitOutput: one io.ReadFull of the payload and the switch on the
\* stream type. A failing ReadFull, the stdin type and an unknown type make
\* the function return.
SplitPayload ==
  /\ demuxPc = "payload"
  /\ LET n == IF frameHdr.left < bufferSize THEN frameHdr.left
              ELSE bufferSize
         left == frameHdr.left - n
     IN IF Len(attach) >= n
          THEN /\ attach' = Drop(attach, n)
               /\ frameHdr' = [frameHdr EXCEPT !.left = left]
               /\ CASE frameHdr.stream = 1 ->
                         /\ Len(stdoutCh) < chanCap
                         /\ stdoutCh' = Append(stdoutCh, Take(attach, n))
                         /\ demuxPc' = IF left <= 0 THEN "read" ELSE "payload"
                         /\ UNCHANGED stderrCh
                    [] frameHdr.stream = 2 ->
                         /\ Len(stderrCh) < chanCap
                         /\ stderrCh' = Append(stderrCh, Take(attach, n))
                         /\ demuxPc' = IF left <= 0 THEN "read" ELSE "payload"
                         /\ UNCHANGED stdoutCh
                    [] OTHER ->
                         /\ demuxPc' = "done"
                         /\ UNCHANGED <<stdoutCh, stderrCh>>
          ELSE /\ attachClosed \/ exited
               /\ demuxPc' = "done"
               /\ UNCHANGED <<attach, frameHdr, stdoutCh, stderrCh>>
  /\ UNCHANGED <<cmdVars, attachClosed, chClosed, pipeVars,
                 waitVars, outVars, errPc, connVars, frames, brokerVars,
                 requestVars, bufferVars, utilVars, reclaimVars, writeVars>>

DemuxNext ==
  \/ CmdWrite
  \/ \E st \in ExitStatuses : CmdExit(st)
  \/ \E ty \in ForeignTypes : ForeignFrame(ty)
  \/ \E n \in 0..(stdWriterPrefixLen + 3) : AttachCut(n)
  \/ SplitPeek
  \/ SplitPayload
  \/ OutCheck
  \/ OutNext
  \/ OutDone
  \/ OutExitCode
  \/ OutClose
  \/ ErrCheck
  \/ ErrNext
  \/ ErrDone

DemuxSpec == DemuxInit /\ [][DemuxNext]_vars

\* C35: whenever streamSplitOutput has stopped, for whatever reason, both
\* output channels are closed (so that NextStdout and NextStderr return
\* io.EOF and the close frame can follow).
SplitStopClosesChannels == demuxPc = "done" => chClosed

\* C36: on every backend, the close frame is written only after the stderr
\* task has finished (its StderrDone has returned), so that no text frame
\* can follow the close frame.
CloseAfterStderrTask == HasCloseFrame => errPc = "end"

====
